---- MODULE Spec2Model ----
(***************************************************************************)
(* Model of Clipper (src/clipper.py): the time codec, the FFmpeg command   *)
(* builder and the encode session (UI thread, encode worker thread,        *)
(* encoder subprocess, Tk "after" event queue).                            *)
(*                                                                         *)
(* Conventions.  Text is a sequence of one-character strings, so that      *)
(* splitting, parsing and formatting are computed, not assumed.  Durations *)
(* that the code holds as floats are held in centiseconds (1 s = 100).     *)
(* Speeds are held in hundredths (1.0x = 100).                             *)
(***************************************************************************)
EXTENDS Integers, Sequences, FiniteSets, TLC

(***************************************************************************)
(* Bounds of the model.                                                    *)
(***************************************************************************)
\* diagnostic lines one encoder run may write
MaxLines == 2
\* segments of a typed time string
MaxSegs == 3

(***************************************************************************)
(* Text helpers: Python's str.split(":"), int() and "%d" / "%02d".         *)
(***************************************************************************)
DigitChars == <<"0", "1", "2", "3", "4", "5", "6", "7", "8", "9">>

IsDigit(c) == \E i \in DOMAIN DigitChars : DigitChars[i] = c

DigitVal(c) == (CHOOSE i \in DOMAIN DigitChars : DigitChars[i] = c) - 1

\* str.split(":"): the fields between the colons, empty fields kept
RECURSIVE SplitColon(_)
SplitColon(s) ==
    IF \A i \in DOMAIN s : s[i] # ":"
    THEN <<s>>
    ELSE LET i == CHOOSE k \in DOMAIN s :
                      s[k] = ":" /\ \A j \in 1..(k - 1) : s[j] # ":"
         IN  <<SubSeq(s, 1, i - 1)>> \o SplitColon(SubSeq(s, i + 1, Len(s)))

RECURSIVE DigitsValue(_)
DigitsValue(ds) ==
    IF ds = <<>> THEN 0
    ELSE 10 * DigitsValue(SubSeq(ds, 1, Len(ds) - 1)) + DigitVal(ds[Len(ds)])

\* int(text): an optional sign, then one or more digits; anything else
\* raises ValueError (ok = FALSE)
ParseInt(seg) ==
    LET signed == seg # <<>> /\ seg[1] \in {"-", "+"}
        body   == IF signed THEN Tail(seg) ELSE seg
        ok     == body # <<>> /\ \A i \in DOMAIN body : IsDigit(body[i])
    IN  [ok  |-> ok,
         val |-> IF ~ok THEN 0
                 ELSE IF signed /\ seg[1] = "-" THEN 0 - DigitsValue(body)
                 ELSE DigitsValue(body)]

\* str(n) for n >= 0
RECURSIVE NatToStr(_)
NatToStr(n) ==
    IF n < 10 THEN <<DigitChars[n + 1]>>
    ELSE NatToStr(n \div 10) \o <<DigitChars[(n % 10) + 1]>>

\* str(n) for any integer
IntToStr(n) == IF n < 0 THEN <<"-">> \o NatToStr(0 - n) ELSE NatToStr(n)

\* f"{n:02d}" for n >= 0
Pad2(n) == IF n < 10 THEN <<"0">> \o NatToStr(n) ELSE NatToStr(n)

(***************************************************************************)
(* Time codec.                                                             *)
(***************************************************************************)
\* each branch of the parse: the map(int, parts) and the range tests
TwoSegmentFault(minutes, seconds) == seconds >= 60 \/ minutes < 0

ThreeSegmentFault(hours, minutes, seconds) ==
    seconds >= 60 \/ minutes >= 60 \/ hours < 0

\* the parse shared by both variants: fault, or the number of seconds
ParseTime(time_str) ==
    LET parts == SplitColon(time_str)
        ints  == [i \in DOMAIN parts |-> ParseInt(parts[i])]
        allok == \A i \in DOMAIN ints : ints[i].ok
    IN  IF Len(parts) = 2
        THEN IF ~allok \/ TwoSegmentFault(ints[1].val, ints[2].val)
             THEN [fault |-> TRUE, secs |-> 0]
             ELSE [fault |-> FALSE, secs |-> ints[1].val * 60 + ints[2].val]
        ELSE IF Len(parts) = 3
        THEN IF ~allok \/ ThreeSegmentFault(ints[1].val, ints[2].val, ints[3].val)
             THEN [fault |-> TRUE, secs |-> 0]
             ELSE [fault |-> FALSE,
                   secs  |-> ints[1].val * 3600 + ints[2].val * 60 + ints[3].val]
        ELSE [fault |-> TRUE, secs |-> 0]

\* lenient variant: 0 on any fault
time_to_seconds(time_str) == ParseTime(time_str).secs

\* strict variant: the empty string is "not an error"
validate_time_format(time_str) ==
    IF time_str = <<>> THEN TRUE ELSE ~ParseTime(time_str).fault

\* the seconds written without the zero padding
seconds_to_time_unpadded(seconds) ==
    IntToStr(seconds \div 60) \o <<":">> \o NatToStr(seconds % 60)

\* f"{minutes}:{secs:02d}" with minutes = seconds // 60, secs = seconds % 60
seconds_to_time(seconds) ==
    IntToStr(seconds \div 60) \o <<":">> \o Pad2(seconds % 60)

(***************************************************************************)
(* State.                                                                  *)
(***************************************************************************)
VARIABLES
    \* ClipperGUI fields
    input_file,         \* self.input_file: "" or a path
    is_processing,      \* self.is_processing
    cancel_requested,   \* self.cancel_requested
    ffmpeg_process,     \* self.ffmpeg_process: 0 is None, else a process id
    video_duration,     \* self.video_duration, centiseconds
    trim_enabled,       \* self.trim_enabled
    start_time,         \* self.start_time (text)
    end_time,           \* self.end_time (text)
    advanced_enabled,   \* self.advanced_enabled
    adv,                \* the entries of the advanced panel (text)
    ui,                 \* widgets: progress bar, control groups, status, dialogs
    \* threads, processes, queues
    ui_pc,              \* UI thread: "idle", or inside cancel_processing
    worker,             \* the encode worker thread: position and locals
    probing,            \* duration-probe threads of on_file_selected in flight
    procs,              \* encoder subprocesses by process id
    afterq,             \* callbacks posted with root.after(0, ...), in order
    \* history of the current job, used to state properties
    cancel_invoked,     \* cancel_processing ran while this job was Running
    outcome,            \* what processing_complete reported for this job
    run,                \* the current run of marker lines of equal percent
    accepted,           \* the trim options process_video validated for this job
    \* inputs and results of the pure components
    tc,                 \* time codec: text in, parse / validate / format out
    cb,                 \* command builder: job in, argument vector out
    dg,                 \* failure diagnostics: stderr lines in, message out
    \* the upload panel: output file, service, button, thread, requests
    up

session_vars ==
    <<input_file, is_processing, cancel_requested, ffmpeg_process, video_duration,
      trim_enabled, start_time, end_time, advanced_enabled, adv, ui, ui_pc,
      worker, probing, procs, afterq, cancel_invoked, outcome, run, accepted>>

vars == <<session_vars, tc, cb, dg, up, probing, accepted>>

(***************************************************************************)
(* Encode session: data.                                                   *)
(***************************************************************************)
\* process ids: the session holds one encoder at a time; an encoder it has let
\* go of stays in the table until the next job starts, when nothing of the
\* session can reach it any more
Pids == {1}

\* what the user has set up before pressing Process: trim switch, start and
\* end text, probed duration (0: the probe failed)
\* Python text as a sequence of characters
RemoveAudio ==
    <<"R", "e", "m", "o", "v", "e", " ", "A", "u", "d", "i", "o">>

\* the entries of the advanced panel after __init__
DefaultEntries ==
    [codec |-> "H.264", crf |-> <<"2", "0">>, fps |-> <<"6", "0">>,
     audio_bitrate |-> <<"1", "2", "8", "k">>,
     resolution |-> <<"1", "9", "2", "0", "x", "1", "0", "8", "0">>]

\* the entries after reset_settings
ResetEntries == [DefaultEntries EXCEPT !.fps = <<"1", "2", "0">>]

SessionSetups ==
    { [trim |-> FALSE, start |-> <<"0", ":", "0", "0">>,
       end |-> <<"3", ":", "0", "0">>, dur |-> 18000,
       advanced |-> FALSE, adv |-> DefaultEntries],
      [trim |-> FALSE, start |-> <<"0", ":", "0", "0">>,
       end |-> <<"0", ":", "0", "0">>, dur |-> 0,
       advanced |-> FALSE, adv |-> DefaultEntries],
      [trim |-> TRUE, start |-> <<"1", ":", "0", "0">>,
       end |-> <<"2", ":", "0", "0">>, dur |-> 18000,
       advanced |-> FALSE, adv |-> DefaultEntries],
      [trim |-> TRUE, start |-> <<"2", ":", "0", "0">>,
       end |-> <<"1", ":", "0", "0">>, dur |-> 18000,
       advanced |-> FALSE, adv |-> DefaultEntries],
      [trim |-> TRUE, start |-> <<"0", ":", "0", "0">>,
       end |-> <<"1", ":", "6", "0">>, dur |-> 18000,
       advanced |-> FALSE, adv |-> DefaultEntries] }

\* what a re-probe in the worker can find
ProbedDurations == {0, 18000}

\* diagnostic lines of the encoder: the groups of time=(\d+):(\d+):(\d+\.\d+),
\* the libass signature, or neither
DiagLines ==
    { [kind |-> "other", h |-> 0, m |-> 0, cs |-> 0],
      [kind |-> "libass", h |-> 0, m |-> 0, cs |-> 0],
      [kind |-> "time", h |-> 0, m |-> 0, cs |-> 50],
      [kind |-> "time", h |-> 0, m |-> 1, cs |-> 3000] }

NoProc ==
    [st |-> "none", rc |-> 0, term |-> FALSE, kill |-> FALSE, pipe |-> <<>>,
     written |-> 0, reaped |-> FALSE, held |-> FALSE]

\* history: no marker line read yet
NoRun == [percent |-> 0, lines |-> 0, before |-> 0, posted |-> 0]

\* history: no job accepted yet
NoAccepted == [job |-> FALSE, trim |-> FALSE, start |-> <<>>, end |-> <<>>]

NoWorker ==
    [pc |-> "none", trimming |-> FALSE, duration |-> 0, total_duration |-> 0,
     last_percent |-> 0, process |-> 0, libass |-> FALSE, waited |-> FALSE,
     returncode |-> 0]

InitUi ==
    [progress_bar |-> 0, progress_shown |-> FALSE, main_controls |-> "normal",
     advanced_controls |-> "normal", upload_controls |-> "normal",
     cancel_state |-> "normal", cancel_shown |-> FALSE,
     process_shown |-> TRUE, status |-> "ready", upload_frame |-> FALSE,
     messagebox |-> "none"]

(***************************************************************************)
(* Encode session: UI thread.                                              *)
(***************************************************************************)
\* the widget states set_processing_ui_state(processing) leaves behind
set_processing_ui_state(u, processing, advanced) ==
    LET state == IF processing THEN "disabled" ELSE "normal"
    IN  [u EXCEPT !.main_controls = state,
                  !.advanced_controls = IF advanced THEN state ELSE "disabled",
                  !.upload_controls = state,
                  !.cancel_state = IF processing THEN "normal" ELSE "disabled"]

\* _validate_inputs: "ok", or the error it shows
ValidateInputs(ffmpeg_ok, file_exists) ==
    IF ~ffmpeg_ok THEN "ffmpeg_not_found"
    ELSE IF input_file = "" THEN "no_input_file"
    ELSE IF ~file_exists THEN "input_missing"
    ELSE IF ~trim_enabled THEN "ok"
    ELSE IF ~validate_time_format(start_time) THEN "invalid_time"
    ELSE IF ~validate_time_format(end_time) THEN "invalid_time"
    ELSE IF time_to_seconds(start_time) >= time_to_seconds(end_time)
         THEN "start_not_before_end"
    ELSE IF time_to_seconds(end_time) * 100 > video_duration
         THEN "end_exceeds_duration"
    ELSE "ok"

\* int(text) succeeds and lo <= value <= hi
IntInRange(text, lo, hi) ==
    /\ ParseInt(text).ok
    /\ lo <= ParseInt(text).val
    /\ ParseInt(text).val <= hi

\* the CRF test with the range of VP9 for every codec
CrfFault_any_codec(codec_label, crf) == ~IntInRange(crf, 0, 63)

\* the CRF test: 0..63 for VP9, 0..51 for the other codecs
CrfFault(codec_label, crf) ==
    ~IntInRange(crf, 0, IF codec_label = "VP9" THEN 63 ELSE 51)

\* the FPS test
FpsFault(fps) == ~IntInRange(fps, 1, 240)

\* text[:-1]
AllButLast(text) ==
    IF text = <<>> THEN <<>> ELSE SubSeq(text, 1, Len(text) - 1)

\* the bitrate test: int(audio_bitrate[:-1]) in 8..512 unless "Remove Audio"
BitrateFault(audio_bitrate) ==
    /\ audio_bitrate # RemoveAudio
    /\ ~IntInRange(AllButLast(audio_bitrate), 8, 512)

\* re.match(r"^\d{2,5}x\d{2,5}$", res)
ResolutionForm(res) ==
    \E i \in DOMAIN res :
        /\ res[i] = "x"
        /\ \A j \in DOMAIN res : j # i => IsDigit(res[j])
        /\ (i - 1) \in 2..5
        /\ (Len(res) - i) \in 2..5

\* w, h = map(int, res.lower().split("x"))
ResolutionSize(res) ==
    LET i == CHOOSE k \in DOMAIN res : res[k] = "x"
    IN  [w |-> DigitsValue(SubSeq(res, 1, i - 1)),
         h |-> DigitsValue(SubSeq(res, i + 1, Len(res)))]

\* 16 <= w <= 7680 and 16 <= h <= 4320
ResolutionInRange(size) ==
    /\ 16 <= size.w
    /\ size.w <= 7680
    /\ 16 <= size.h
    /\ size.h <= 4320

\* the advanced block without its resolution tests
AdvancedFault_any_resolution(entries) ==
    IF CrfFault(entries.codec, entries.crf) THEN "crf"
    ELSE IF FpsFault(entries.fps) THEN "fps"
    ELSE IF BitrateFault(entries.audio_bitrate) THEN "audio_bitrate"
    ELSE "ok"

\* the advanced block of process_video: "ok", or the error it shows
AdvancedFault(entries) ==
    IF CrfFault(entries.codec, entries.crf) THEN "crf"
    ELSE IF FpsFault(entries.fps) THEN "fps"
    ELSE IF BitrateFault(entries.audio_bitrate) THEN "audio_bitrate"
    ELSE IF ~ResolutionForm(entries.resolution) THEN "resolution_form"
    ELSE IF ~ResolutionInRange(ResolutionSize(entries.resolution))
         THEN "resolution_range"
    ELSE "ok"

\* start_processing without "self.cancel_requested = False"
start_processing_keeps_flag ==
    /\ is_processing' = TRUE
    /\ ffmpeg_process' = 0
    /\ ui' = set_processing_ui_state(
                [ui EXCEPT !.process_shown = FALSE, !.cancel_shown = TRUE,
                           !.status = "processing", !.progress_bar = 0,
                           !.progress_shown = TRUE, !.messagebox = "none"],
                TRUE, advanced_enabled)
    /\ worker' = [NoWorker EXCEPT !.pc = "start"]
    /\ cancel_invoked' = FALSE
    /\ outcome' = "none"
    /\ run' = NoRun
    /\ procs' = [p \in Pids |-> NoProc]
    /\ accepted' = [job |-> TRUE, trim |-> trim_enabled,
                    start |-> start_time, end |-> end_time]
    /\ UNCHANGED <<input_file, cancel_requested, video_duration, trim_enabled,
                   start_time, end_time, advanced_enabled, adv, ui_pc, afterq>>

\* start_processing(output_path)
start_processing ==
    /\ is_processing' = TRUE
    /\ cancel_requested' = FALSE
    /\ ffmpeg_process' = 0
    /\ ui' = set_processing_ui_state(
                [ui EXCEPT !.process_shown = FALSE, !.cancel_shown = TRUE,
                           !.status = "processing", !.progress_bar = 0,
                           !.progress_shown = TRUE, !.messagebox = "none"],
                TRUE, advanced_enabled)
    /\ worker' = [NoWorker EXCEPT !.pc = "start"]
    /\ cancel_invoked' = FALSE
    /\ outcome' = "none"
    /\ run' = NoRun
    /\ procs' = [p \in Pids |-> NoProc]
    /\ accepted' = [job |-> TRUE, trim |-> trim_enabled,
                    start |-> start_time, end |-> end_time]
    /\ UNCHANGED <<input_file, video_duration, trim_enabled, start_time,
                   end_time, advanced_enabled, adv, ui_pc, afterq>>

\* a handler that returns early: its dialog, if any, and nothing else
RejectSubmission(message) ==
    /\ ui' = [ui EXCEPT !.messagebox = message]
    /\ UNCHANGED <<input_file, is_processing, cancel_requested, ffmpeg_process,
                   video_duration, trim_enabled, start_time, end_time,
                   advanced_enabled, adv, ui_pc, worker, procs, afterq,
                   cancel_invoked, outcome, run, accepted>>

\* process_video without its "if self.is_processing" guard
process_video_unguarded ==
    /\ ui_pc = "idle"
    /\ UNCHANGED <<tc, cb, dg, up, probing>>
    /\ \E ffmpeg_ok \in BOOLEAN, file_exists \in BOOLEAN,
          save_as \in {"off", "chosen", "dismissed"} :
          LET fault == ValidateInputs(ffmpeg_ok, file_exists)
              advanced_fault ==
                  IF advanced_enabled THEN AdvancedFault(adv) ELSE "ok"
          IN  IF fault # "ok" THEN RejectSubmission(fault)
              ELSE IF advanced_fault # "ok"
                   THEN RejectSubmission(advanced_fault)
              ELSE IF save_as = "dismissed" THEN RejectSubmission("none")
              ELSE start_processing

\* process_video: the guard, _validate_inputs, the advanced block,
\* get_output_path, start_processing
process_video ==
    /\ ui_pc = "idle"
    /\ UNCHANGED <<tc, cb, dg, up, probing>>
    /\ IF is_processing
       THEN RejectSubmission("already_processing")
       ELSE \E ffmpeg_ok \in BOOLEAN, file_exists \in BOOLEAN,
               save_as \in {"off", "chosen", "dismissed"} :
               LET fault == ValidateInputs(ffmpeg_ok, file_exists)
                   advanced_fault ==
                       IF advanced_enabled THEN AdvancedFault(adv) ELSE "ok"
               IN  IF fault # "ok" THEN RejectSubmission(fault)
                   ELSE IF advanced_fault # "ok"
                        THEN RejectSubmission(advanced_fault)
                   ELSE IF save_as = "dismissed" THEN RejectSubmission("none")
                   ELSE start_processing

\* cancel_processing without its "if not self.is_processing" return
cancel_processing_unguarded ==
    /\ ui_pc = "idle"
    /\ cancel_requested' = TRUE
    /\ cancel_invoked' = TRUE
    /\ ui' = set_processing_ui_state(
                [ui EXCEPT !.cancel_state = "disabled",
                           !.status = "cancelling",
                           !.messagebox = "none"],
                FALSE, advanced_enabled)
    /\ ui_pc' = "cancel_terminate"
    /\ UNCHANGED <<input_file, is_processing, ffmpeg_process,
                   video_duration, trim_enabled, start_time, end_time,
                   advanced_enabled, adv, worker, procs, afterq,
                   outcome, run, tc, cb, dg, up, probing, accepted>>

\* cancel_processing, up to the read of self.ffmpeg_process
cancel_processing ==
    /\ ui_pc = "idle"
    /\ UNCHANGED <<tc, cb, dg, up, probing, accepted>>
    /\ IF ~is_processing
       THEN RejectSubmission("none")
       ELSE /\ cancel_requested' = TRUE
            /\ cancel_invoked' = TRUE
            /\ ui' = set_processing_ui_state(
                        [ui EXCEPT !.cancel_state = "disabled",
                                   !.status = "cancelling",
                                   !.messagebox = "none"],
                        FALSE, advanced_enabled)
            /\ ui_pc' = "cancel_terminate"
            /\ UNCHANGED <<input_file, is_processing, ffmpeg_process,
                           video_duration, trim_enabled, start_time, end_time,
                           advanced_enabled, adv, worker, procs, afterq,
                           outcome, run>>

\* exit codes of an encoder that ends by itself, and of one that got SIGTERM
\* (it may have just finished, or it dies of the signal); -9 is SIGKILL
NaturalExits == {0, 1}

SignalledExits == {0, -15}

\* cancel_processing, from "if self.ffmpeg_process:" on: terminate, wait out
\* the grace period, kill if it is still there
cancel_terminate ==
    /\ ui_pc = "cancel_terminate"
    /\ ui_pc' = "idle"
    /\ UNCHANGED <<tc, cb, dg, up, probing, accepted>>
    /\ IF ffmpeg_process = 0 \/ procs[ffmpeg_process].st # "running"
       THEN UNCHANGED procs
       ELSE \E rc \in SignalledExits \cup {-9} :
               procs' = IF procs[ffmpeg_process].held
                        THEN [procs EXCEPT ![ffmpeg_process].term = TRUE,
                                           ![ffmpeg_process].kill = (rc = -9),
                                           ![ffmpeg_process].st = "exited",
                                           ![ffmpeg_process].rc = rc,
                                           ![ffmpeg_process].reaped = TRUE]
                        ELSE [procs EXCEPT ![ffmpeg_process] = NoProc]
    /\ UNCHANGED <<input_file, is_processing, cancel_requested, ffmpeg_process,
                   video_duration, trim_enabled, start_time, end_time,
                   advanced_enabled, adv, ui, worker, afterq,
                   cancel_invoked, outcome, run>>

\* reset_settings, confirmed; the Reset button is one of main_controls
reset_settings ==
    /\ ui_pc = "idle"
    /\ ui.main_controls = "normal"
    /\ input_file' = ""
    /\ start_time' = <<"0", ":", "0", "0">>
    /\ end_time' = <<"0", ":", "0", "0">>
    /\ trim_enabled' = FALSE
    /\ advanced_enabled' = FALSE
    /\ adv' = ResetEntries
    /\ ui' = [ui EXCEPT !.status = "ready", !.progress_bar = 0,
                        !.progress_shown = FALSE, !.cancel_shown = FALSE,
                        !.process_shown = TRUE, !.upload_frame = FALSE,
                        !.messagebox = "none"]
    /\ UNCHANGED <<is_processing, cancel_requested, ffmpeg_process,
                   video_duration, ui_pc, worker, procs, afterq,
                   cancel_invoked, outcome, run, tc, cb, dg, up, probing, accepted>>

\* get_video_duration(path): the probe, and what it stores
get_video_duration(probed) ==
    /\ video_duration' = probed
    /\ end_time' = IF probed > 0 THEN seconds_to_time(probed \div 100)
                   ELSE end_time

\* processing_complete(success, message)
processing_complete(success, message) ==
    /\ is_processing' = FALSE
    /\ ui' = LET shown == [ui EXCEPT !.cancel_shown = FALSE,
                                     !.process_shown = TRUE,
                                     !.progress_bar =
                                         IF success THEN 100 ELSE 0,
                                     !.progress_shown = FALSE]
                 freed == set_processing_ui_state(shown, FALSE,
                                                  advanced_enabled)
             IN  [freed EXCEPT !.status =
                                   IF success THEN "success" ELSE "failed",
                               !.messagebox = message,
                               !.upload_frame = success]
    /\ outcome' = IF success THEN "Completed"
                  ELSE IF message = "cancelled" THEN "Cancelled"
                  ELSE "Failed"

\* the Tk event loop runs the oldest posted callback
RunPosted ==
    /\ ui_pc = "idle"
    /\ afterq # <<>>
    /\ afterq' = Tail(afterq)
    /\ LET ev == Head(afterq)
       IN  IF ev.cb = "processing_complete"
           THEN processing_complete(ev.success, ev.message)
           ELSE /\ ui' = [ui EXCEPT !.progress_bar = ev.value,
                                    !.messagebox = "none"]
                /\ UNCHANGED <<is_processing, outcome>>
    /\ UNCHANGED <<input_file, cancel_requested, ffmpeg_process,
                   video_duration, trim_enabled, start_time, end_time,
                   advanced_enabled, adv, ui_pc, worker, procs,
                   cancel_invoked, run, tc, cb, dg, up, probing, accepted>>

(***************************************************************************)
(* Encode session: the worker thread, run_ffmpeg_with_progress.            *)
(***************************************************************************)
Min(a, b) == IF a < b THEN a ELSE b

\* root.after(0, self.processing_complete, success, message)
PostComplete(success, message) ==
    afterq' = Append(afterq, [cb |-> "processing_complete",
                              success |-> success, message |-> message,
                              value |-> 0])

\* current = int(h) * 3600 + int(m) * 60 + float(s), in centiseconds
Elapsed(line) == line.h * 360000 + line.m * 6000 + line.cs

\* the probed duration used even when trimming
TotalDuration_untrimmed(trimming, duration, probed) ==
    IF probed <= 0 THEN 100 ELSE probed

\* total_duration = duration if trimming else self.video_duration, and the
\* guard "if total_duration <= 0: total_duration = 1"
TotalDuration(trimming, duration, probed) ==
    LET total == IF trimming THEN duration ELSE probed
    IN  IF total <= 0 THEN 100 ELSE total

\* percent = min(int((current / total_duration) * 100), 100)
ProgressPercent(current, total) == Min((current * 100) \div total, 100)

\* every marker line posted, no de-duplication
ShouldReport_always(percent, last_percent) == TRUE

\* the test that decides whether a percent is posted
ShouldReport(percent, last_percent) == percent # last_percent

\* the thread ends: nothing of it is left to run; what process.wait() gave,
\* if it was called, is kept for the record
WorkerReturns(w) ==
    [NoWorker EXCEPT !.waited = w.waited, !.returncode = w.returncode]

\* the process table once the worker lets go of process pid: an ended process
\* is gone, a running one lives on with nobody reading its pipe
Release(table, pid) ==
    IF table[pid].st = "exited" THEN [table EXCEPT ![pid] = NoProc]
    ELSE [table EXCEPT ![pid].pipe = <<>>, ![pid].written = 0,
                       ![pid].held = FALSE]

\* from the top of the function to the built command: reads the options,
\* probes the duration again if it is unknown, computes the trim duration
WorkerStart ==
    /\ worker.pc = "start"
    /\ IF video_duration <= 0
       THEN \E probed \in ProbedDurations : get_video_duration(probed)
       ELSE UNCHANGED <<video_duration, end_time>>
    /\ worker' = [worker EXCEPT
                     !.pc = "spawn",
                     !.trimming = trim_enabled,
                     !.duration =
                         IF trim_enabled
                         THEN 100 * (time_to_seconds(end_time')
                                     - time_to_seconds(start_time))
                         ELSE 0]
    /\ UNCHANGED <<input_file, is_processing, cancel_requested, ffmpeg_process,
                   trim_enabled, start_time, advanced_enabled, adv, ui, ui_pc,
                   procs, afterq, cancel_invoked, outcome,
                   run, tc, cb, dg, up, probing, accepted>>

\* subprocess.Popen(command, ...): a new process, or the exception it raises
WorkerSpawn ==
    /\ worker.pc = "spawn"
    /\ \/ \E pid \in Pids :
             /\ procs[pid].st = "none"
             /\ \A q \in Pids : procs[q].st = "none" => pid <= q
             /\ procs' = [procs EXCEPT ![pid] =
                                  [NoProc EXCEPT !.st = "running",
                                                 !.held = TRUE]]
             /\ worker' = [worker EXCEPT !.pc = "assign", !.process = pid]
             /\ UNCHANGED afterq
       \/ \E message \in {"ffmpeg_not_found", "permission", "unexpected"} :
             /\ PostComplete(FALSE, message)
             /\ worker' = WorkerReturns(worker)
             /\ UNCHANGED procs
    /\ UNCHANGED <<input_file, is_processing, cancel_requested, ffmpeg_process,
                   video_duration, trim_enabled, start_time, end_time,
                   advanced_enabled, adv, ui, ui_pc, cancel_invoked,
                   outcome, run, tc, cb, dg, up, probing, accepted>>

\* self.ffmpeg_process = process, and the locals set before the loop
WorkerAssign ==
    /\ worker.pc = "assign"
    /\ ffmpeg_process' = worker.process
    /\ worker' = [worker EXCEPT
                     !.pc = "loop",
                     !.last_percent = 0,
                     !.total_duration =
                         TotalDuration(worker.trimming, worker.duration,
                                       video_duration)]
    /\ UNCHANGED <<input_file, is_processing, cancel_requested, video_duration,
                   trim_enabled, start_time, end_time, advanced_enabled, adv, ui,
                   ui_pc, procs, afterq, cancel_invoked, outcome,
                   run, tc, cb, dg, up, probing, accepted>>

\* the cancellation branch returning without posting processing_complete
WorkerCheckCancel_silent ==
    /\ worker.pc = "loop"
    /\ IF cancel_requested
       THEN /\ procs' = Release(
                           [procs EXCEPT ![worker.process].term =
                               procs[worker.process].st = "running"
                               \/ procs[worker.process].term],
                           worker.process)
            /\ worker' = WorkerReturns(worker)
            /\ UNCHANGED afterq
       ELSE /\ worker' = [worker EXCEPT !.pc = "read"]
            /\ UNCHANGED <<procs, afterq>>
    /\ UNCHANGED <<input_file, is_processing, cancel_requested, ffmpeg_process,
                   video_duration, trim_enabled, start_time, end_time,
                   advanced_enabled, adv, ui, ui_pc, cancel_invoked,
                   outcome, run, tc, cb, dg, up, probing, accepted>>

\* top of the read loop: the cancellation flag
WorkerCheckCancel ==
    /\ worker.pc = "loop"
    /\ IF cancel_requested
       THEN /\ procs' = Release(
                           [procs EXCEPT ![worker.process].term =
                               procs[worker.process].st = "running"
                               \/ procs[worker.process].term],
                           worker.process)
            /\ PostComplete(FALSE, "cancelled")
            /\ worker' = WorkerReturns(worker)
       ELSE /\ worker' = [worker EXCEPT !.pc = "read"]
            /\ UNCHANGED <<procs, afterq>>
    /\ UNCHANGED <<input_file, is_processing, cancel_requested, ffmpeg_process,
                   video_duration, trim_enabled, start_time, end_time,
                   advanced_enabled, adv, ui, ui_pc, cancel_invoked,
                   outcome, run, tc, cb, dg, up, probing, accepted>>

\* the body of the loop for one line that readline returned
WorkerTakeLine(line) ==
    LET percent == ProgressPercent(Elapsed(line), worker.total_duration)
        report  == line.kind = "time"
                   /\ ShouldReport(percent, worker.last_percent)
    IN  /\ worker' = [worker EXCEPT
                         !.pc = "loop",
                         !.libass = worker.libass \/ line.kind = "libass",
                         !.last_percent = IF report THEN percent
                                          ELSE worker.last_percent]
        /\ afterq' = IF report
                     THEN Append(afterq, [cb |-> "progress", success |-> FALSE,
                                          message |-> "", value |-> percent])
                     ELSE afterq
        /\ run' = IF line.kind # "time" THEN run
                  ELSE IF run.lines > 0 /\ run.percent = percent
                  THEN [run EXCEPT !.lines = 2,
                                   !.posted = Min(2, run.posted
                                                  + IF report THEN 1 ELSE 0)]
                  ELSE [percent |-> percent, lines |-> 1,
                        before |-> worker.last_percent,
                        posted |-> IF report THEN 1 ELSE 0]

\* line = process.stderr.readline(): a line, end of stream, or a decoding
\* error; blocks while the pipe is empty and the encoder runs
WorkerRead ==
    /\ worker.pc = "read"
    /\ LET p == procs[worker.process]
       IN  \/ /\ p.pipe # <<>>
              /\ \/ /\ procs' = [procs EXCEPT
                                       ![worker.process].pipe = Tail(p.pipe)]
                    /\ WorkerTakeLine(Head(p.pipe))
                 \/ /\ procs' = Release(procs, worker.process)
                    /\ PostComplete(FALSE, "unexpected")
                    /\ worker' = WorkerReturns(worker)
                    /\ UNCHANGED run
           \/ /\ p.pipe = <<>>
              /\ p.st = "exited"
              /\ worker' = [worker EXCEPT !.pc = "drain"]
              /\ UNCHANGED <<procs, afterq, run>>
    /\ UNCHANGED <<input_file, is_processing, cancel_requested, ffmpeg_process,
                   video_duration, trim_enabled, start_time, end_time,
                   advanced_enabled, adv, ui, ui_pc, cancel_invoked,
                   outcome, tc, cb, dg, up, probing, accepted>>

\* success for every exit code that is not a signal
ExitSuccess_nonnegative(returncode) == returncode >= 0

\* "if process.returncode == 0"
ExitSuccess(returncode) == returncode = 0

\* the message the exit code and the collected output select
ExitMessage(returncode, libass) ==
    IF ExitSuccess(returncode) THEN "success"
    ELSE IF libass THEN "libass"
    ELSE "failed"

\* the libass branch without its return: the generic failure is posted too
WorkerClassify_libass_falls_through ==
    /\ worker.pc = "drain"
    /\ procs[worker.process].st = "exited"
    /\ procs' = Release([procs EXCEPT ![worker.process].reaped = TRUE],
                        worker.process)
    /\ LET rc == procs[worker.process].rc
           first == [cb |-> "processing_complete",
                     success |-> ExitSuccess(rc),
                     message |-> ExitMessage(rc, worker.libass),
                     value |-> 0]
           second == [first EXCEPT !.message = "failed"]
       IN  /\ afterq' = IF ~ExitSuccess(rc) /\ worker.libass
                        THEN afterq \o <<first, second>>
                        ELSE Append(afterq, first)
           /\ worker' = WorkerReturns([worker EXCEPT !.waited = TRUE,
                                                     !.returncode = rc])
    /\ UNCHANGED <<input_file, is_processing, cancel_requested, ffmpeg_process,
                   video_duration, trim_enabled, start_time, end_time,
                   advanced_enabled, adv, ui, ui_pc, cancel_invoked,
                   outcome, run, tc, cb, dg, up, probing, accepted>>

\* after the loop: process.wait(), then the outcome by exit code
WorkerClassify ==
    /\ worker.pc = "drain"
    /\ procs[worker.process].st = "exited"
    /\ procs' = Release([procs EXCEPT ![worker.process].reaped = TRUE],
                        worker.process)
    /\ LET rc == procs[worker.process].rc
       IN  /\ PostComplete(ExitSuccess(rc), ExitMessage(rc, worker.libass))
           /\ worker' = WorkerReturns([worker EXCEPT !.waited = TRUE,
                                                     !.returncode = rc])
    /\ UNCHANGED <<input_file, is_processing, cancel_requested, ffmpeg_process,
                   video_duration, trim_enabled, start_time, end_time,
                   advanced_enabled, adv, ui, ui_pc, cancel_invoked,
                   outcome, run, tc, cb, dg, up, probing, accepted>>

(***************************************************************************)
(* The encoder subprocess.                                                 *)
(***************************************************************************)
EncoderWrite(p) ==
    /\ procs[p].st = "running"
    /\ procs[p].held
    /\ ~procs[p].term
    /\ procs[p].written < MaxLines
    /\ \E line \in DiagLines :
          procs' = [procs EXCEPT ![p].pipe = Append(procs[p].pipe, line),
                                 ![p].written = procs[p].written + 1]
    /\ UNCHANGED <<input_file, is_processing, cancel_requested, ffmpeg_process,
                   video_duration, trim_enabled, start_time, end_time,
                   advanced_enabled, adv, ui, ui_pc, worker, afterq,
                   cancel_invoked, outcome, run, tc, cb, dg, up, probing, accepted>>

\* the process ends and its stderr closes: by itself, or on SIGTERM
EncoderExit(p) ==
    /\ procs[p].st = "running"
    /\ \E rc \in (IF procs[p].term THEN SignalledExits ELSE NaturalExits) :
          procs' = IF procs[p].held
                   THEN [procs EXCEPT ![p].st = "exited", ![p].rc = rc]
                   ELSE [procs EXCEPT ![p] = NoProc]
    /\ UNCHANGED <<input_file, is_processing, cancel_requested, ffmpeg_process,
                   video_duration, trim_enabled, start_time, end_time,
                   advanced_enabled, adv, ui, ui_pc, worker, afterq,
                   cancel_invoked, outcome, run, tc, cb, dg, up, probing, accepted>>

(***************************************************************************)
(* The session as a whole.                                                 *)
(***************************************************************************)
\* the fields after ClipperGUI.__init__ and the selection of a file
SessionStart(setup) ==
    /\ trim_enabled = setup.trim
    /\ start_time = setup.start
    /\ end_time = setup.end
    /\ video_duration = setup.dur
    /\ input_file = "clip.mp4"
    /\ is_processing = FALSE
    /\ cancel_requested = FALSE
    /\ ffmpeg_process = 0
    /\ advanced_enabled = setup.advanced
    /\ adv = setup.adv
    /\ ui = InitUi
    /\ ui_pc = "idle"
    /\ worker = NoWorker
    /\ probing = 0
    /\ accepted = NoAccepted
    /\ procs = [p \in Pids |-> NoProc]
    /\ afterq = <<>>
    /\ cancel_invoked = FALSE
    /\ outcome = "none"
    /\ run = NoRun

Init ==
    /\ \E setup \in SessionSetups : SessionStart(setup)
    /\ tc = <<>>
    /\ cb = <<>>
    /\ dg = <<>>
    /\ up = <<>>

Encoder == \E p \in Pids : EncoderWrite(p) \/ EncoderExit(p)

Worker ==
    \/ WorkerStart
    \/ WorkerSpawn
    \/ WorkerAssign
    \/ WorkerCheckCancel
    \/ WorkerRead
    \/ WorkerClassify

Next ==
    \/ process_video
    \/ cancel_processing
    \/ cancel_terminate
    \/ reset_settings
    \/ RunPosted
    \/ WorkerStart
    \/ WorkerSpawn
    \/ WorkerAssign
    \/ WorkerCheckCancel
    \/ WorkerRead
    \/ WorkerClassify
    \/ \E p \in Pids : EncoderWrite(p)
    \/ \E p \in Pids : EncoderExit(p)

Spec == Init /\ [][Next]_vars

\* the session under the scheduling the program relies on: threads run, the
\* encoder ends, the Tk loop serves its queue and finishes its handlers
LiveSpec ==
    /\ Spec
    /\ WF_vars(Worker)
    /\ WF_vars(\E p \in Pids : EncoderExit(p))
    /\ WF_vars(cancel_terminate)
    /\ SF_vars(RunPosted)

(***************************************************************************)
(* Properties of the encode session.                                       *)
(***************************************************************************)
\* a step that leaves everything but the dialog as it was
OnlyDialogChanges(message) ==
    /\ ui' = [ui EXCEPT !.messagebox = message]
    /\ UNCHANGED <<input_file, is_processing, cancel_requested, ffmpeg_process,
                   video_duration, trim_enabled, start_time, end_time,
                   advanced_enabled, adv, ui_pc, worker, procs, afterq,
                   cancel_invoked, outcome, run>>

\* C1: process_video invoked while a job is Running shows the "already
\* processing" notice and changes nothing else: no worker thread is started,
\* no subprocess is spawned, is_processing, cancel_requested and
\* ffmpeg_process stay as they are.
C1_RejectedWhileRunning ==
    [][(is_processing /\ process_video)
           => OnlyDialogChanges("already_processing")]_vars

\* C1 witness: the rejection happened while the worker was reading the output
\* of a running encoder
C1_Witness ==
    /\ is_processing
    /\ ui.messagebox = "already_processing"
    /\ worker.pc = "read"
    /\ procs[worker.process].st = "running"

\* the completion just delivered came from the exit-code classification or
\* from the cancellation branch (not from an exception handler)
DeliveredFromLoop ==
    /\ outcome # "none"
    /\ ui.messagebox \in {"success", "failed", "libass", "cancelled"}

\* C2: once cancel_processing has run during a job, the outcome reported for
\* that job is Cancelled, on every interleaving of UI thread and worker.
C2_CancelledAfterCancel ==
    (cancel_invoked /\ DeliveredFromLoop) => outcome = "Cancelled"

\* C3: every job that enters Running reaches a terminal outcome and the
\* session is Idle again, whatever the exit code, cancellation or exception.
C3_RunningLeadsToIdle ==
    is_processing ~>
        (~is_processing /\ outcome \in {"Completed", "Failed", "Cancelled"})

\* C3 witness: a job that was cancelled has been reported and the session is
\* Idle
C3_Witness ==
    /\ ~is_processing
    /\ outcome = "Cancelled"
    /\ cancel_invoked

\* C4 as claimed: every run of consecutive marker lines of equal percent has
\* produced exactly one progress update.
C4_OneUpdatePerRun == run.lines > 0 => run.posted = 1

\* C4 amended: a run of consecutive marker lines of equal percent produces
\* exactly one update when its percent differs from the last reported percent
\* at the start of the run (initially 0), and none otherwise.
C4_OneUpdatePerChange ==
    run.lines > 0 =>
        run.posted = (IF run.percent # run.before THEN 1 ELSE 0)

\* C4 witness: two lines at 00:01:30.00 against 180 s, one update of 50
C4_Witness ==
    /\ run.lines = 2
    /\ run.percent = 50
    /\ run.posted = 1
    /\ worker.total_duration = 18000

\* a step of the read loop that posted a progress update
PostedProgress ==
    /\ worker.pc = "read"
    /\ Len(afterq') = Len(afterq) + 1
    /\ afterq'[Len(afterq')].cb = "progress"

DeliveredFromExit ==
    /\ worker.waited
    /\ outcome # "none"
    /\ ui.messagebox \in {"success", "failed", "libass"}

\* C6: on natural exit, code 0 gives Completed with the success message,
\* progress 100 and the upload controls shown; any other code gives Failed
\* with progress 0 and the upload controls hidden.
C6_ExitCodeClassification ==
    DeliveredFromExit =>
        IF worker.returncode = 0
        THEN /\ outcome = "Completed"
             /\ ui.messagebox = "success"
             /\ ui.progress_bar = 100
             /\ ui.upload_frame
        ELSE /\ outcome = "Failed"
             /\ ui.progress_bar = 0
             /\ ~ui.upload_frame

\* C6 witness: exit code 1 reported as Failed
C6_Witness ==
    /\ DeliveredFromExit
    /\ worker.returncode = 1
    /\ outcome = "Failed"

(***************************************************************************)
(* The time codec on typed text: each string of the entry fields is        *)
(* validated, parsed and formatted back; numbers of seconds are formatted. *)
(***************************************************************************)
\* fields a user may type between the colons
TimeFields ==
    { <<>>, <<"x">>, <<"0", "0">>, <<"0", "5">>, <<"1">>, <<"2">>, <<"3">>,
      <<"4">>, <<"5">>, <<"3", "0">>, <<"6", "0">>, <<"9", "0">>,
      <<"-", "1">>, <<"-", "5">> }

\* ":".join(fields)
RECURSIVE JoinColon(_)
JoinColon(fields) ==
    IF Len(fields) = 1 THEN fields[1]
    ELSE fields[1] \o <<":">> \o JoinColon(Tail(fields))

\* the typed strings: up to MaxSegs fields, and the four-field "1:2:3:4"
TimeStrings ==
    { JoinColon(fields) :
        fields \in UNION { [1..n -> TimeFields] : n \in 1..MaxSegs } }
    \cup { <<"1", ":", "2", ":", "3", ":", "4">> }

\* numbers of seconds handed to seconds_to_time directly
SecondCounts == {0, 59, 60, 3599, 3600, 3700, 5400}

\* the session left aside while the codec is exercised
SessionAside == UNCHANGED <<session_vars, cb, dg, up>>

\* validate_time_format on the typed string
ApplyValidate ==
    /\ tc.op = "typed"
    /\ tc' = [tc EXCEPT !.op = "validated",
                        !.valid = validate_time_format(tc.input)]
    /\ SessionAside

\* time_to_seconds on the typed string
ApplyTimeToSeconds ==
    /\ tc.op = "validated"
    /\ tc' = [tc EXCEPT !.op = "parsed",
                        !.secs = time_to_seconds(tc.input)]
    /\ SessionAside

\* seconds_to_time on the parsed or the given number of seconds
ApplySecondsToTime ==
    /\ tc.op \in {"parsed", "seconds"}
    /\ tc' = [tc EXCEPT !.op = "formatted",
                        !.text = seconds_to_time(tc.secs)]
    /\ SessionAside

InitTime ==
    /\ SessionStart(CHOOSE setup \in SessionSetups :
                        ~setup.trim /\ setup.dur > 0)
    /\ cb = <<>>
    /\ dg = <<>>
    /\ up = <<>>
    /\ \/ \E time_str \in TimeStrings :
             tc = [typed |-> TRUE, op |-> "typed", input |-> time_str,
                   valid |-> FALSE, secs |-> 0, text |-> <<>>]
       \/ \E seconds \in SecondCounts :
             tc = [typed |-> FALSE, op |-> "seconds", input |-> <<>>,
                   valid |-> FALSE, secs |-> seconds, text |-> <<>>]

NextTime ==
    \/ ApplyValidate
    \/ ApplyTimeToSeconds
    \/ ApplySecondsToTime

SpecTime == InitTime /\ [][NextTime]_vars

(***************************************************************************)
(* Properties of the time codec.                                           *)
(***************************************************************************)
\* the fields of a typed string read as integers
FieldInts(time_str) ==
    LET parts == SplitColon(time_str)
    IN  [i \in DOMAIN parts |-> ParseInt(parts[i])]

\* some field of the string is a negative integer
HasNegativeComponent(time_str) ==
    \E i \in DOMAIN FieldInts(time_str) :
        FieldInts(time_str)[i].ok /\ FieldInts(time_str)[i].val < 0

\* both variants have been applied to the typed string
BothApplied == tc.typed /\ tc.op \in {"parsed", "formatted"}

\* C7: every typed string with a negative component, in any position, is
\* faulted by both variants: validate_time_format returns False and
\* time_to_seconds returns 0.
C7_NegativeComponentFaults ==
    (BothApplied /\ HasNegativeComponent(tc.input))
        => (~tc.valid /\ tc.secs = 0)

\* a string of two all-digit fields, the minute field of 1-2 digits, the
\* seconds field below 60
ClaimedMSS(time_str) ==
    LET parts == SplitColon(time_str)
    IN  /\ Len(parts) = 2
        /\ Len(parts[1]) \in {1, 2}
        /\ parts[2] # <<>>
        /\ \A i \in 1..2 : \A k \in DOMAIN parts[i] : IsDigit(parts[i][k])
        /\ DigitsValue(parts[2]) < 60

\* the same, written as seconds_to_time writes: no leading zero in the minute
\* field, two digits in the seconds field
CanonicalMSS(time_str) ==
    LET parts == SplitColon(time_str)
    IN  /\ ClaimedMSS(time_str)
        /\ Len(parts[2]) = 2
        /\ (Len(parts[1]) = 2 => parts[1][1] # "0")

\* the formatted text has a minute field and a seconds field, nothing else
NoHourSegment ==
    /\ Len(SplitColon(tc.text)) = 2
    /\ (tc.secs = 3700 => tc.text = <<"6", "1", ":", "4", "0">>)

\* C8 as claimed: formatting the parse of a valid M:SS string (1-2 digit
\* minute field, seconds below 60) gives the string back, and formatting
\* never produces an hour segment.
C8_RoundTrip ==
    tc.op = "formatted" =>
        /\ NoHourSegment
        /\ (tc.typed /\ ClaimedMSS(tc.input)) => tc.text = tc.input

\* C8 amended: formatting the parse of a valid M:SS string gives the string
\* back when the string is canonical (minute field without a leading zero,
\* seconds field of exactly two digits); formatting never produces an hour
\* segment (3700 s is "61:40").
C8_RoundTripCanonical ==
    tc.op = "formatted" =>
        /\ NoHourSegment
        /\ (tc.typed /\ CanonicalMSS(tc.input)) =>
               (tc.valid /\ tc.text = tc.input)

\* C8 witness: "90:00" parsed to 5400 s and formatted back to "90:00"
C8_Witness ==
    /\ tc.op = "formatted"
    /\ tc.typed
    /\ tc.input = <<"9", "0", ":", "0", "0">>
    /\ tc.secs = 5400
    /\ tc.text = tc.input

(***************************************************************************)
(* The FFmpeg command builder and its use by the worker.  An argument is   *)
(* a token, a number, or a filter chain; a filter is a name and operands.  *)
(***************************************************************************)
Arg(token) == [t |-> token, n |-> 0, chain |-> <<>>]

NumArg(number) == [t |-> "num", n |-> number, chain |-> <<>>]

ChainArg(filters) == [t |-> "chain", n |-> 0, chain |-> filters]

Filter(name, a, b) == [name |-> name, a |-> a, b |-> b]

\* Python's None for a scale and for an fps
NoScale == [w |-> 0, h |-> 0]

NoFps == 0

\* FFmpegCommandBuilder.__init__
NewBuilder ==
    [cmd |-> <<Arg("ffmpeg"), Arg("-y")>>, vf_filters |-> <<>>,
     af_filters |-> <<>>, has_subtitles |-> FALSE, has_speed |-> FALSE,
     setpts_filter |-> <<>>]

with_input(b) == [b EXCEPT !.cmd = @ \o <<Arg("-i"), Arg("input")>>]

with_hybrid_trim(b, start) ==
    [b EXCEPT !.cmd = @ \o <<Arg("-ss"), NumArg(start)>>]

with_post_input_trim(b, offset, duration) ==
    [b EXCEPT !.cmd = @ \o <<Arg("-ss"), NumArg(offset),
                             Arg("-t"), NumArg(duration)>>]

with_video_settings(b, scale, fps) ==
    LET filters ==
            (IF scale # NoScale
             THEN <<Filter("scale", scale.w, scale.h)>> ELSE <<>>)
            \o (IF fps # NoFps THEN <<Filter("fps", fps, 0)>> ELSE <<>>)
    IN  [b EXCEPT !.vf_filters = @ \o filters]

with_subtitles(b, map_index) ==
    [b EXCEPT !.has_subtitles = TRUE,
              !.vf_filters = <<Filter("subtitles", map_index, 0)>> \o @]

\* "while remaining > 2.0": remaining is num / den hundredths
RECURSIVE HalveWhileAbove(_)
HalveWhileAbove(r) ==
    IF r.num > 200 * r.den
    THEN HalveWhileAbove([af  |-> Append(r.af, Filter("atempo", 200, 0)),
                          num |-> r.num, den |-> 2 * r.den])
    ELSE r

\* "while remaining < 0.5"
RECURSIVE DoubleWhileBelow(_)
DoubleWhileBelow(r) ==
    IF r.num < 50 * r.den
    THEN DoubleWhileBelow([af  |-> Append(r.af, Filter("atempo", 50, 0)),
                           num |-> 2 * r.num, den |-> r.den])
    ELSE r

\* f"{remaining:.2f}" in hundredths: the nearest, an exact tie to the even one
TwoDecimals(num, den) ==
    LET q == num \div den
        twice == 2 * (num % den)
    IN  IF twice < den THEN q
        ELSE IF twice > den THEN q + 1
        ELSE IF q % 2 = 0 THEN q ELSE q + 1

\* with_speed(speed), speed in hundredths
with_speed(b, speed) ==
    IF speed = 100 THEN b
    ELSE LET r == DoubleWhileBelow(
                      HalveWhileAbove([af |-> <<>>, num |-> speed, den |-> 1]))
             af_filters ==
                 Append(r.af, Filter("atempo", TwoDecimals(r.num, r.den), 0))
         IN  [b EXCEPT !.has_speed = TRUE,
                       !.setpts_filter = <<Filter("setpts", speed, 0)>>,
                       !.af_filters = @ \o af_filters]

with_extra(b, extra_args) == [b EXCEPT !.cmd = @ \o extra_args]

with_map(b, map_args) == [b EXCEPT !.cmd = @ \o map_args]

with_codec(b, codec, crf) ==
    [b EXCEPT !.cmd = @ \o <<Arg("-c:v"), Arg(codec), Arg("-crf"), NumArg(crf),
                             Arg("-preset"), Arg("medium")>>]

with_audio(b, codec, bitrate) ==
    [b EXCEPT !.cmd = @ \o <<Arg("-c:a"), Arg(codec), Arg("-b:a"),
                             Arg(bitrate)>>]

\* the setpts filter put at the head of the chain
build_setpts_first(b) ==
    LET vf_chain == (IF b.has_speed /\ b.setpts_filter # <<>>
                     THEN b.setpts_filter ELSE <<>>)
                    \o b.vf_filters
    IN  b.cmd
        \o (IF vf_chain # <<>> THEN <<Arg("-vf"), ChainArg(vf_chain)>>
            ELSE <<>>)
        \o (IF b.af_filters # <<>>
            THEN <<Arg("-filter:a"), ChainArg(b.af_filters)>> ELSE <<>>)
        \o <<Arg("output")>>

\* build(output_path)
build(b) ==
    LET vf_chain == b.vf_filters
                    \o (IF b.has_speed /\ b.setpts_filter # <<>>
                        THEN b.setpts_filter ELSE <<>>)
    IN  b.cmd
        \o (IF vf_chain # <<>> THEN <<Arg("-vf"), ChainArg(vf_chain)>>
            ELSE <<>>)
        \o (IF b.af_filters # <<>>
            THEN <<Arg("-filter:a"), ChainArg(b.af_filters)>> ELSE <<>>)
        \o <<Arg("output")>>

(***************************************************************************)
(* Command assembly in run_ffmpeg_with_progress, from the selections of    *)
(* the advanced panel and the probe of the source; and with_speed called   *)
(* on a fresh builder.                                                     *)
(***************************************************************************)
\* get_input_info: (None, None, None), or width, height and r_frame_rate
SourceProbes ==
    { [ok |-> FALSE, w |-> 0, h |-> 0, num |-> 0, den |-> 1] }
    \cup { [ok |-> TRUE, w |-> res.w, h |-> res.h,
            num |-> rate.num, den |-> rate.den] :
             res \in { [w |-> 1920, h |-> 1080], [w |-> 1280, h |-> 720] },
             rate \in { [num |-> 30, den |-> 1], [num |-> 60, den |-> 1],
                        [num |-> 30000, den |-> 1001] } }

\* the values of the speed combobox, in hundredths
SpeedPresets == {100, 50, 75, 150, 175, 200, 400}

\* speeds handed to with_speed directly: the presets and further values
\* whose two-decimal rendering does not depend on the float representation
SpeedInputs == SpeedPresets \cup {10, 25, 30, 300, 450, 800}

\* the audio streams found in the source (their global stream indices) and
\* the position chosen in the audio combobox; -1 when the combobox is not
\* consulted (tracks not included, or no combobox)
AudioSelections ==
    { [indices |-> <<>>, current |-> -1],
      [indices |-> <<1, 3, 5>>, current |-> -1],
      [indices |-> <<1, 3, 5>>, current |-> 2] }

\* selections of the advanced panel; map_index is the position of the chosen
\* subtitle stream among the subtitle streams of the source
JobSelections ==
  { sel \in
    [advanced     : BOOLEAN,
     trimming     : BOOLEAN,
     probe        : SourceProbes,
     resolution   : { [w |-> 1920, h |-> 1080], [w |-> 1280, h |-> 720] },
     fps          : {30, 60},
     speed        : SpeedPresets,
     container    : {"mp4", "mkv", "webm"},
     subtitle     : BOOLEAN,
     codec        : {"libx264", "libvpx-vp9"},
     map_index    : {0, 2},
     audio_bitrate : {"128k", "Remove Audio"},
     audio        : AudioSelections] :
    sel.subtitle \/ sel.map_index = 0 }

\* the selections of a freshly built panel
DefaultSelections ==
    [advanced |-> FALSE, trimming |-> FALSE,
     probe |-> [ok |-> FALSE, w |-> 0, h |-> 0, num |-> 0, den |-> 1],
     resolution |-> [w |-> 1920, h |-> 1080], fps |-> 60, speed |-> 100,
     container |-> "mp4", subtitle |-> FALSE, map_index |-> 0,
     codec |-> "libx264", audio_bitrate |-> "128k",
     audio |-> [indices |-> <<>>, current |-> -1]]

\* the options in force: the selections, or the fixed ones with the panel off
EffectiveOptions(sel) ==
    IF sel.advanced
    THEN [codec |-> sel.codec, fps |-> sel.fps, resolution |-> sel.resolution,
          speed_value |-> sel.speed, container_label |-> sel.container,
          audio_bitrate |-> sel.audio_bitrate]
    ELSE [codec |-> "libx264", fps |-> 120,
          resolution |-> [w |-> 1920, h |-> 1080],
          speed_value |-> 100, container_label |-> "mp4",
          audio_bitrate |-> "128k"]

\* selected_audio_index: the global index of the chosen stream, of the first
\* stream when none is chosen, 0 when the source has no audio stream
SelectedAudioIndex(sel) ==
    LET streams == sel.audio.indices
        first   == IF streams # <<>> THEN streams[1] ELSE 0
        idx     == sel.audio.current
    IN  IF sel.advanced /\ idx # -1
        THEN IF idx >= 0 /\ idx < Len(streams) THEN streams[idx + 1] ELSE first
        ELSE first

\* the trim range of the jobs assembled here
TrimStart == time_to_seconds(<<"1", ":", "0", "0">>)

TrimEnd == time_to_seconds(<<"2", ":", "0", "0">>)

CmdAside == UNCHANGED <<session_vars, tc, dg, up>>

\* stream copy chosen whether or not a trim is enabled
UseCopy_trimmed(sel) == ~sel.advanced /\ sel.probe.ok

\* use_copy: panel off, no trim, and the probe gave width, height and fps
UseCopy(sel) == ~sel.advanced /\ ~sel.trimming /\ sel.probe.ok

\* the option block at the top of the worker
ReadOptions ==
    /\ cb.stage = "selected"
    /\ cb' = [cb EXCEPT
                !.stage = "read",
                !.opt = EffectiveOptions(cb.sel),
                !.selected_subtitle = cb.sel.advanced /\ cb.sel.subtitle,
                !.selected_audio_index = SelectedAudioIndex(cb.sel),
                !.use_copy = UseCopy(cb.sel)]
    /\ CmdAside

\* stream copy, or the input with its trim arguments
AssembleInput ==
    /\ cb.stage = "read"
    /\ cb' = [cb EXCEPT
                !.stage = "input",
                !.builder =
                    IF cb.use_copy
                    THEN with_extra(with_input(NewBuilder),
                                    <<Arg("-c:v"), Arg("copy"),
                                      Arg("-c:a"), Arg("copy")>>)
                    ELSE IF cb.sel.trimming
                    THEN with_post_input_trim(
                             with_input(with_hybrid_trim(NewBuilder, TrimStart)),
                             0, TrimEnd - TrimStart)
                    ELSE with_input(NewBuilder)]
    /\ CmdAside

\* the argument f"0:s:{selected_subtitle.map_index}"
SubtitleArg(map_index) == [t |-> "0:s", n |-> map_index, chain |-> <<>>]

\* the subtitle branches with webm handled like mkv
SubtitleFilters_webm_soft(b, opt, map_index) ==
    IF opt.container_label = "mp4"
    THEN with_extra(
             with_speed(
                 with_video_settings(with_subtitles(b, map_index),
                                     opt.resolution, opt.fps),
                 opt.speed_value),
             <<Arg("-sn")>>)
    ELSE with_extra(
             with_speed(with_video_settings(b, opt.resolution, opt.fps),
                        opt.speed_value),
             <<Arg("-map"), SubtitleArg(map_index), Arg("-c:s"),
               Arg("copy")>>)

\* the subtitle branches
SubtitleFilters(b, opt, map_index) ==
    IF opt.container_label \in {"mp4", "webm"}
    THEN with_extra(
             with_speed(
                 with_video_settings(with_subtitles(b, map_index),
                                     opt.resolution, opt.fps),
                 opt.speed_value),
             <<Arg("-sn")>>)
    ELSE IF opt.container_label = "mkv"
    THEN with_extra(
             with_speed(with_video_settings(b, opt.resolution, opt.fps),
                        opt.speed_value),
             <<Arg("-map"), SubtitleArg(map_index), Arg("-c:s"),
               Arg("copy")>>)
    ELSE b

\* the branch without a subtitle: scale and fps only where they differ from
\* the source
ElidedFilters(b, opt, probe) ==
    LET scale_needed ==
            ~(probe.ok /\ probe.w # 0 /\ probe.h # 0
              /\ opt.resolution.w = probe.w /\ opt.resolution.h = probe.h)
        fps_needed ==
            ~(probe.ok /\ probe.num # 0 /\ opt.fps * probe.den = probe.num)
        settled ==
            IF scale_needed \/ fps_needed
            THEN with_video_settings(
                     b,
                     IF scale_needed THEN opt.resolution ELSE NoScale,
                     IF fps_needed THEN opt.fps ELSE NoFps)
            ELSE b
    IN  with_extra(with_speed(settled, opt.speed_value), <<Arg("-sn")>>)

\* the filters of a re-encode
AssembleFilters ==
    /\ cb.stage = "input"
    /\ cb' = [cb EXCEPT
                !.stage = "filtered",
                !.builder =
                    IF cb.use_copy THEN cb.builder
                    ELSE IF cb.selected_subtitle
                    THEN SubtitleFilters(cb.builder, cb.opt,
                                         cb.sel.map_index)
                    ELSE ElidedFilters(cb.builder, cb.opt, cb.sel.probe)]
    /\ CmdAside

\* the argument f"0:a:{audio_idx}"
AudioArg(audio_idx) == [t |-> "0:a", n |-> audio_idx, chain |-> <<>>]

\* the global stream index written in place of the position
AudioPosition_global(audio_indices, selected_audio_index) ==
    selected_audio_index

\* self.audio_indices.index(selected_audio_index) if it is in the list, else 0
AudioPosition(audio_indices, selected_audio_index) ==
    IF \E k \in DOMAIN audio_indices : audio_indices[k] = selected_audio_index
    THEN (CHOOSE k \in DOMAIN audio_indices :
              /\ audio_indices[k] = selected_audio_index
              /\ \A j \in 1..(k - 1) : audio_indices[j] # selected_audio_index)
         - 1
    ELSE 0

\* map_args: the video stream, and one audio stream when the source has any
MapArgs(audio_indices, selected_audio_index) ==
    <<Arg("-map"), Arg("0:v")>>
    \o (IF audio_indices # <<>>
        THEN <<Arg("-map"),
               AudioArg(AudioPosition(audio_indices, selected_audio_index))>>
        ELSE <<>>)

\* stream mapping, codec and audio of a re-encode
Encoding(b, opt, map_args) ==
    LET mapped == with_map(b, map_args)
        coded  == with_codec(mapped, opt.codec, 20)
    IN  IF opt.audio_bitrate = "Remove Audio"
        THEN with_extra(coded, <<Arg("-an")>>)
        ELSE with_audio(coded,
                        IF opt.codec = "libvpx-vp9" THEN "libopus" ELSE "aac",
                        opt.audio_bitrate)

\* builder.build(output_path), after the encoding arguments of a re-encode
BuildCommand ==
    /\ cb.stage = "filtered"
    /\ LET b == IF cb.job /\ ~cb.use_copy
                THEN Encoding(cb.builder, cb.opt,
                              MapArgs(cb.sel.audio.indices,
                                      cb.selected_audio_index))
                ELSE cb.builder
       IN  cb' = [cb EXCEPT !.stage = "built", !.builder = b,
                            !.command = build(b)]
    /\ CmdAside

\* with_speed on a fresh builder
CallWithSpeed ==
    /\ cb.stage = "call"
    /\ cb' = [cb EXCEPT !.stage = "filtered",
                        !.builder = with_speed(NewBuilder, cb.speed)]
    /\ CmdAside

InitCmd ==
    /\ SessionStart(CHOOSE setup \in SessionSetups :
                        ~setup.trim /\ setup.dur > 0)
    /\ tc = <<>>
    /\ dg = <<>>
    /\ up = <<>>
    /\ LET blank == [job |-> TRUE, stage |-> "selected",
                     sel |-> DefaultSelections, speed |-> 100,
                     opt |-> EffectiveOptions(DefaultSelections),
                     selected_subtitle |-> FALSE, selected_audio_index |-> 0,
                     use_copy |-> FALSE,
                     builder |-> NewBuilder, command |-> <<>>]
       IN  \/ \E sel \in JobSelections :
                 cb = [blank EXCEPT !.sel = sel, !.speed = sel.speed]
           \/ \E speed \in SpeedInputs :
                 cb = [blank EXCEPT !.job = FALSE, !.stage = "call",
                                    !.speed = speed]

NextCmd ==
    \/ ReadOptions
    \/ AssembleInput
    \/ AssembleFilters
    \/ BuildCommand
    \/ CallWithSpeed

SpecCmd == InitCmd /\ [][NextCmd]_vars

(***************************************************************************)
(* Properties of the command builder.                                      *)
(***************************************************************************)
\* the filters of the chain that follows the given flag in the command
ChainOf(flag) ==
    IF \E i \in 2..Len(cb.command) : cb.command[i - 1].t = flag
    THEN cb.command[CHOOSE i \in 2..Len(cb.command) :
                        cb.command[i - 1].t = flag].chain
    ELSE <<>>

HasVideoFilter(name) ==
    \E k \in DOMAIN ChainOf("-vf") : ChainOf("-vf")[k].name = name

\* a built re-encode command of a source whose probe succeeded
BuiltReencode ==
    /\ cb.job
    /\ cb.stage = "built"
    /\ ~cb.use_copy
    /\ cb.sel.probe.ok

\* C9: the command of a re-encode has a scale filter only if the target
\* resolution differs from the probed one and an fps filter only if the
\* target fps differs from the probed one, whatever the other options are
\* (trim, speed, container, subtitle track).
C9_NoOpElision ==
    BuiltReencode =>
        /\ HasVideoFilter("scale") =>
               ~(cb.opt.resolution.w = cb.sel.probe.w
                 /\ cb.opt.resolution.h = cb.sel.probe.h)
        /\ HasVideoFilter("fps") =>
               cb.opt.fps * cb.sel.probe.den # cb.sel.probe.num

\* the atempo stages of the built command, in hundredths
TempoStages ==
    [k \in DOMAIN ChainOf("-filter:a") |-> ChainOf("-filter:a")[k].a]

RECURSIVE Product(_)
Product(factors) ==
    IF factors = <<>> THEN 1 ELSE Head(factors) * Product(Tail(factors))

\* C10: for every speed other than 1.0 the atempo stages lie in [0.5, 2.0],
\* all but the last are exactly 0.5 or 2.0 and their product is the speed;
\* 4.0 gives two 2.0 stages, 0.3 gives 0.5 then 0.6; 1.0 gives no audio
\* filter and no setpts filter.
C10_TempoDecomposition ==
    (~cb.job /\ cb.stage = "built") =>
        IF cb.speed = 100
        THEN TempoStages = <<>> /\ ~HasVideoFilter("setpts")
        ELSE /\ TempoStages # <<>>
             /\ \A k \in DOMAIN TempoStages :
                    /\ TempoStages[k] >= 50
                    /\ TempoStages[k] <= 200
                    /\ k < Len(TempoStages) => TempoStages[k] \in {50, 200}
             /\ Product(TempoStages) * 100
                    = cb.speed * Product([k \in DOMAIN TempoStages |-> 100])
             /\ cb.speed = 400 => TempoStages = <<200, 200>>
             /\ cb.speed = 30 => TempoStages = <<50, 60>>

\* the positions of the command that hold an audio mapping
AudioMaps == { i \in DOMAIN cb.command : cb.command[i].t = "0:a" }

\* a built re-encode command of a source with audio streams
BuiltWithAudio ==
    /\ cb.job
    /\ cb.stage = "built"
    /\ ~cb.use_copy
    /\ cb.sel.audio.indices # <<>>

\* C11: when the source has audio streams the re-encode command maps exactly
\* one audio stream, as -map 0:a:K with K the 0-based position of the selected
\* stream (the first by default) in the audio-stream list, not its global
\* stream index.
C11_AudioMapPosition ==
    BuiltWithAudio =>
        /\ Cardinality(AudioMaps) = 1
        /\ \A i \in AudioMaps :
              /\ i > 1
              /\ cb.command[i - 1].t = "-map"
              /\ cb.command[i].n =
                     (IF cb.sel.advanced /\ cb.sel.audio.current >= 0
                      THEN cb.sel.audio.current ELSE 0)

\* C11 witness: streams at global indices 1, 3, 5, the third selected,
\* mapped as 0:a:2
C11_Witness ==
    /\ BuiltWithAudio
    /\ cb.sel.audio.indices = <<1, 3, 5>>
    /\ cb.selected_audio_index = 5
    /\ \E i \in AudioMaps : cb.command[i].n = 2

\* the command has an argument with the given token
HasArg(token) == \E i \in DOMAIN cb.command : cb.command[i].t = token

\* the stream-copy command: ffmpeg -y -i <input> -c:v copy -c:a copy <output>
PassthroughCommand ==
    <<Arg("ffmpeg"), Arg("-y"), Arg("-i"), Arg("input"), Arg("-c:v"),
      Arg("copy"), Arg("-c:a"), Arg("copy"), Arg("output")>>

\* C12: stream copy is chosen exactly when no trim is enabled, the advanced
\* options are off and the probe of the source succeeded; the command is then
\* ffmpeg -y -i <input> -c:v copy -c:a copy <output>, with no trim, filter,
\* crf, preset or codec arguments; every other job is re-encoded.
C12_PassthroughExactly ==
    (cb.job /\ cb.stage = "built") =>
        IF ~cb.sel.trimming /\ ~cb.sel.advanced /\ cb.sel.probe.ok
        THEN /\ cb.command = PassthroughCommand
             /\ \A token \in {"-ss", "-t", "-vf", "-filter:a", "-crf",
                              "-preset", "-map"} : ~HasArg(token)
        ELSE /\ cb.command # PassthroughCommand
             /\ HasArg("-crf")
             /\ HasArg("-preset")
             /\ \E i \in DOMAIN cb.command : cb.command[i].t = "-c:v"
             /\ \A i \in DOMAIN cb.command :
                    cb.command[i].t = "-c:v" =>
                        cb.command[i + 1].t = cb.opt.codec

\* C12 witness: a probed source, panel off, no trim: the stream-copy command
C12_Witness ==
    /\ cb.job
    /\ cb.stage = "built"
    /\ cb.use_copy
    /\ cb.sel.probe.ok
    /\ cb.command = PassthroughCommand

(***************************************************************************)
(* Submission: the handlers of the UI thread on a filled-in form.  The     *)
(* worker and the encoder take no step here.                               *)
(***************************************************************************)
\* texts typed into the CRF entry
CrfTexts ==
    { <<"2", "0">>, <<"0">>, <<"5", "1">>, <<"5", "2">>,
      <<"6", "0">>, <<"6", "3">>, <<"6", "4">>, <<"7", "0">>,
      <<"-", "1">>, <<"x">>, <<>> }

\* texts typed into the FPS entry
FpsTexts ==
    { <<"0">>, <<"1">>, <<"2", "4", "0">>, <<"2", "4", "1">>,
      <<"x">> }

\* texts typed into the audio bitrate entry, and the "Remove Audio" choice
BitrateTexts ==
    { <<"8", "k">>, <<"7", "k">>, <<"5", "1", "2", "k">>,
      <<"5", "1", "3", "k">>, <<"1", "2", "8", "x">>,
      <<"1", "2", "8">>, <<"k">>, <<>>, <<"a", "b", "c", "k">>,
      RemoveAudio }

\* texts typed into the resolution entry
ResolutionTexts ==
    { <<"1", "6", "x", "1", "6">>, <<"1", "5", "x", "1", "6">>,
      <<"7", "6", "8", "0", "x", "4", "3", "2", "0">>,
      <<"7", "6", "8", "1", "x", "4", "3", "2", "0">>,
      <<"1", "9", "2", "0", "x", "4", "3", "2", "1">>,
      <<"1", "9", "2", "0", ":", "1", "0", "8", "0">>,
      <<"1", "x", "1">>, <<"1", "9", "2", "0", "x">> }

\* the advanced panel with one entry changed
TypedEntries ==
    { [DefaultEntries EXCEPT !.codec = codec, !.crf = crf] :
          codec \in {"H.264", "H.265 (HEVC)", "VP9"}, crf \in CrfTexts }
    \cup { [DefaultEntries EXCEPT !.fps = fps] : fps \in FpsTexts }
    \cup { [DefaultEntries EXCEPT !.audio_bitrate = audio_bitrate] :
               audio_bitrate \in BitrateTexts }
    \cup { [DefaultEntries EXCEPT !.resolution = resolution] :
               resolution \in ResolutionTexts }

\* forms at the moment of a submission: the trim panels of the session with
\* the advanced panel off, a trim of a source whose duration is unknown, and
\* the advanced panel on with its entries typed
SubmitSetups ==
    SessionSetups
    \cup { [trim |-> TRUE, start |-> <<"0", ":", "0", "0">>,
            end |-> <<"1", ":", "0", "0">>, dur |-> 0,
            advanced |-> FALSE, adv |-> DefaultEntries] }
    \cup { [trim |-> FALSE, start |-> <<"0", ":", "0", "0">>,
            end |-> <<"3", ":", "0", "0">>, dur |-> 18000,
            advanced |-> TRUE, adv |-> entries] : entries \in TypedEntries }

InitSubmit ==
    /\ \E setup \in SubmitSetups : SessionStart(setup)
    /\ tc = <<>>
    /\ cb = <<>>
    /\ dg = <<>>
    /\ up = <<>>

NextSubmit ==
    \/ process_video
    \/ cancel_processing
    \/ cancel_terminate
    \/ reset_settings

SpecSubmit == InitSubmit /\ [][NextSubmit]_vars

(***************************************************************************)
(* Properties of the submission.                                           *)
(***************************************************************************)
\* a process_video step that starts a job
JobStarts == process_video /\ ~is_processing /\ is_processing'

\* a process_video step of an idle session that starts no job
JobRefused(message) ==
    process_video /\ ~is_processing /\ OnlyDialogChanges(message)

\* the CRF entry is an integer in the range of the codec
CrfAcceptable ==
    \E n \in 0..63 :
        /\ ParseInt(adv.crf) = [ok |-> TRUE, val |-> n]
        /\ (adv.codec \in {"H.264", "H.265 (HEVC)"} => n <= 51)

\* C13: with the advanced options on a job starts only if the CRF is an
\* integer in 0..51 for H.264/H.265 and 0..63 for VP9; a submission with any
\* other CRF shows the CRF error and leaves the session as it was, Idle.
C13_CrfByCodec ==
    [][(process_video /\ ~is_processing /\ advanced_enabled)
          => /\ is_processing' => CrfAcceptable
             /\ ui'.messagebox = "crf" => ~CrfAcceptable
             /\ (~CrfAcceptable /\ ui'.messagebox \notin
                     {"ffmpeg_not_found", "no_input_file", "input_missing"})
                  => JobRefused("crf")]_vars

\* C13 witness: CRF 60 started a job for VP9
C13_Witness ==
    /\ is_processing
    /\ advanced_enabled
    /\ adv.codec = "VP9"
    /\ adv.crf = <<"6", "0">>

\* the bitrate entry is "Remove Audio", or digits followed by "k" with the
\* number in 8..512
BitrateAcceptable ==
    \/ adv.audio_bitrate = RemoveAudio
    \/ /\ Len(adv.audio_bitrate) >= 2
       /\ adv.audio_bitrate[Len(adv.audio_bitrate)] = "k"
       /\ \A i \in 1..(Len(adv.audio_bitrate) - 1) :
              IsDigit(adv.audio_bitrate[i])
       /\ DigitsValue(SubSeq(adv.audio_bitrate, 1,
                             Len(adv.audio_bitrate) - 1)) \in 8..512

\* C14: with the advanced options on, a job is Running only if the audio
\* bitrate entry is the remove-audio choice or has the exact form <digits>k
\* with the number in 8..512.
C14_BitrateForm == (is_processing /\ advanced_enabled) => BitrateAcceptable

\* C15: a trim is refused for its end exceeding the duration only when the
\* duration is known; with an unknown duration (video_duration is 0) the
\* check is relaxed and a trim with start < end may start.
C15_UnknownDurationRelaxed ==
    ui.messagebox = "end_exceeds_duration" => video_duration > 0

\* the text is one or more digits and its number lies in lo..hi
DigitsIn(text, lo, hi) ==
    /\ text # <<>>
    /\ \A i \in DOMAIN text : IsDigit(text[i])
    /\ DigitsValue(text) \in lo..hi

\* the trim range of the form is faulty
TrimFaulty ==
    /\ trim_enabled
    /\ \/ ~validate_time_format(start_time)
       \/ ~validate_time_format(end_time)
       \/ time_to_seconds(start_time) >= time_to_seconds(end_time)
       \/ time_to_seconds(end_time) * 100 > video_duration

\* the FPS entry is not an integer in 1..240
FpsFaulty == ~\E n \in 1..240 : ParseInt(adv.fps) = [ok |-> TRUE, val |-> n]

\* the bitrate entry is <digits>k with the number out of 8..512
BitrateOutOfBounds ==
    /\ Len(adv.audio_bitrate) >= 2
    /\ adv.audio_bitrate[Len(adv.audio_bitrate)] = "k"
    /\ DigitsIn(AllButLast(adv.audio_bitrate), 0, 100000)
    /\ ~DigitsIn(AllButLast(adv.audio_bitrate), 8, 512)

\* the resolution entry is not WxH with W in 16..7680 and H in 16..4320
ResolutionFaulty ==
    ~\E i \in DOMAIN adv.resolution :
        /\ adv.resolution[i] = "x"
        /\ DigitsIn(SubSeq(adv.resolution, 1, i - 1), 16, 7680)
        /\ DigitsIn(SubSeq(adv.resolution, i + 1, Len(adv.resolution)),
                    16, 4320)

\* a validation fault that the form itself shows
FormFault ==
    \/ input_file = ""
    \/ TrimFaulty
    \/ /\ advanced_enabled
       /\ ~CrfAcceptable \/ FpsFaulty \/ BitrateOutOfBounds \/ ResolutionFaulty

\* the error dialogs of a submission
FaultDialogs ==
    {"ffmpeg_not_found", "no_input_file", "input_missing", "invalid_time",
     "start_not_before_end", "end_exceeds_duration", "crf", "fps",
     "audio_bitrate", "resolution_form", "resolution_range"}

C17_CancelWhenIdleNoOp ==
    [][(cancel_processing /\ ~is_processing)
          => /\ ui' = [ui EXCEPT !.messagebox = "none"]
             /\ UNCHANGED <<input_file, is_processing, cancel_requested,
                            ffmpeg_process, video_duration, trim_enabled,
                            start_time, end_time, advanced_enabled, adv,
                            ui_pc, worker, procs, afterq, cancel_invoked,
                            outcome, run, tc, cb, dg, up, probing, accepted>>]_vars

\* C17 witness: a job was cancelled and has been reported, and Cancel was
\* invoked again on the Idle session
C17_Witness ==
    /\ ~is_processing
    /\ outcome = "Cancelled"
    /\ cancel_requested
    /\ ui.status = "failed"
    /\ ui.messagebox = "none"
    /\ ui_pc = "idle"

(***************************************************************************)
(* Upload panel.  A file size is held as whole mebibytes and remaining     *)
(* bytes, size = mb * 1024 * 1024 + rem with rem < 1024 * 1024.            *)
(***************************************************************************)
\* uploads one program run may start
MaxUploads == 2

\* UPLOAD_SERVICES_LIST: key and max_size_mb
UPLOAD_SERVICES_LIST ==
    <<[key |-> "catbox", max_size_mb |-> 200],
      [key |-> "uguu", max_size_mb |-> 134],
      [key |-> "tempsh", max_size_mb |-> 4096]>>

\* the keys the three radio buttons store in self.upload_service
ServiceKeys == {UPLOAD_SERVICES_LIST[i].key : i \in DOMAIN UPLOAD_SERVICES_LIST}

\* None
NoService == [key |-> "", max_size_mb |-> 0]

\* get_upload_service_by_key(key): the first service of that key, or None
get_upload_service_by_key(key) ==
    IF \E i \in DOMAIN UPLOAD_SERVICES_LIST : UPLOAD_SERVICES_LIST[i].key = key
    THEN LET first == CHOOSE i \in DOMAIN UPLOAD_SERVICES_LIST :
                         /\ UPLOAD_SERVICES_LIST[i].key = key
                         /\ \A j \in 1..(i - 1) :
                                UPLOAD_SERVICES_LIST[j].key # key
         IN  UPLOAD_SERVICES_LIST[first]
    ELSE NoService

\* the comparison on whole mebibytes only
ExceedsLimit_whole_mb(size, max_size_mb) == size.mb > max_size_mb

\* file_size_mb > max_size_mb, file_size_mb = file_size_bytes / (1024 * 1024)
ExceedsLimit(size, max_size_mb) ==
    \/ size.mb > max_size_mb
    \/ size.mb = max_size_mb /\ size.rem > 0

\* validate_file_size_for_upload(file_path, service): "ok", or the error it
\* shows; stat_ok is whether os.path.getsize succeeds
validate_file_size_for_upload(stat_ok, size, service) ==
    IF ~stat_ok THEN "size_check_failed"
    ELSE IF get_upload_service_by_key(service) = NoService
         THEN "unknown_service"
    ELSE IF ExceedsLimit(size,
                         get_upload_service_by_key(service).max_size_mb)
         THEN "file_too_large"
    ELSE "ok"

\* sizes of the output file
OutputSizes ==
    {[mb |-> 0, rem |-> 1], [mb |-> 133, rem |-> 1048575],
     [mb |-> 134, rem |-> 0], [mb |-> 134, rem |-> 1],
     [mb |-> 200, rem |-> 0], [mb |-> 200, rem |-> 1],
     [mb |-> 300, rem |-> 0], [mb |-> 4096, rem |-> 0],
     [mb |-> 4096, rem |-> 1]}

\* the upload panel after a job wrote its output (or before any job)
UploadPanels ==
    [last_output_path : {"", "out.mp4"}, size : OutputSizes,
     upload_service : {"catbox"}, upload_btn : {"normal"},
     status : {"ready"}, messagebox : {"none"}, thread : {"none"},
     thread_service : {""}, posted : {"none"}, requests : {0},
     uploads : {0}, checked : {[service |-> "", result |-> "none"]}]

UploadAside == UNCHANGED <<session_vars, tc, cb, dg>>

\* a radio button of the upload panel
select_service(key) ==
    /\ up' = [up EXCEPT !.upload_service = key, !.messagebox = "none"]
    /\ UploadAside

\* upload_to_selected_service; the button invokes it only while enabled
upload_to_selected_service ==
    /\ up.upload_btn = "normal"
    /\ up.uploads < MaxUploads
    /\ UploadAside
    /\ \E exists \in BOOLEAN, stat_ok \in BOOLEAN :
          LET size_fault ==
                  validate_file_size_for_upload(stat_ok, up.size,
                                                up.upload_service)
          IN  IF up.last_output_path = "" \/ ~exists
              THEN up' = [up EXCEPT !.messagebox = "no_processed_file"]
              ELSE IF size_fault # "ok"
                   THEN up' = [up EXCEPT !.messagebox = size_fault]
              ELSE up' = [up EXCEPT !.upload_btn = "disabled",
                                    !.status = "uploading",
                                    !.messagebox = "none",
                                    !.thread = "started",
                                    !.thread_service = up.upload_service,
                                    !.uploads = @ + 1]

\* _upload_file(file_path, service): the request of the service's uploader,
\* then the callback it posts
upload_file ==
    /\ up.thread = "started"
    /\ UploadAside
    /\ IF up.thread_service \in ServiceKeys
       THEN \E answered \in BOOLEAN :
               up' = [up EXCEPT !.thread = "none",
                                !.requests = @ + 1,
                                !.posted = IF answered THEN "_upload_success"
                                           ELSE "_upload_error"]
       ELSE up' = [up EXCEPT !.thread = "none", !.posted = "_upload_error"]

\* _upload_success(url) and _upload_error(error_message), run by the event
\* loop
upload_result ==
    /\ up.posted # "none"
    /\ UploadAside
    /\ up' = [up EXCEPT !.posted = "none",
                        !.upload_btn = "normal",
                        !.status = IF up.posted = "_upload_success"
                                   THEN "uploaded" ELSE "upload_failed",
                        !.messagebox = IF up.posted = "_upload_success"
                                       THEN "upload_success"
                                       ELSE "upload_error"]

\* a direct call validate_file_size_for_upload(self.last_output_path, key)
CallValidateFileSize ==
    /\ UploadAside
    /\ \E key \in ServiceKeys \cup {"imgur"}, stat_ok \in BOOLEAN :
          LET size_fault ==
                  validate_file_size_for_upload(stat_ok, up.size, key)
          IN  up' = [up EXCEPT !.checked =
                                   [service |-> key,
                                    result |-> IF size_fault = "ok"
                                               THEN "True" ELSE "False"],
                               !.messagebox = IF size_fault = "ok" THEN "none"
                                              ELSE size_fault]

InitUpload ==
    /\ SessionStart(CHOOSE setup \in SessionSetups :
                        ~setup.trim /\ setup.dur > 0)
    /\ tc = <<>>
    /\ cb = <<>>
    /\ dg = <<>>
    /\ up \in UploadPanels

NextUpload ==
    \/ \E key \in ServiceKeys : select_service(key)
    \/ upload_to_selected_service
    \/ upload_file
    \/ upload_result
    \/ CallValidateFileSize

SpecUpload == InitUpload /\ [][NextUpload]_vars

(***************************************************************************)
(* Properties of the upload panel.                                         *)
(***************************************************************************)
\* the service of that key exists and the size is at most its max_size_mb
WithinLimit(size, key) ==
    \E i \in DOMAIN UPLOAD_SERVICES_LIST :
        /\ UPLOAD_SERVICES_LIST[i].key = key
        /\ \/ size.mb < UPLOAD_SERVICES_LIST[i].max_size_mb
           \/ size.mb = UPLOAD_SERVICES_LIST[i].max_size_mb /\ size.rem = 0

\* the step starts no upload thread, sends no request and posts nothing
NothingUploaded ==
    /\ up'.thread = up.thread
    /\ up'.uploads = up.uploads
    /\ up'.requests = up.requests
    /\ up'.posted = up.posted
    /\ up'.upload_btn = up.upload_btn
    /\ up'.status = up.status

\* C18: upload_to_selected_service starts the upload thread, and with it any
\* request to the service, only when the output file's size is at most the
\* selected service's max_size_mb; a file over the limit, an unknown service
\* key or a file whose size cannot be read is refused in the handler with an
\* error dialog, no thread and no request.
C18_UploadOnlyWithinLimit ==
    [][/\ up'.uploads # up.uploads
            => /\ WithinLimit(up.size, up.upload_service)
               /\ up'.thread = "started"
               /\ up'.thread_service = up.upload_service
       /\ up'.requests # up.requests
            => up.thread = "started" /\ WithinLimit(up.size, up.thread_service)
       /\ (upload_to_selected_service
             /\ ~WithinLimit(up.size, up.upload_service))
            => /\ NothingUploaded
               /\ up'.messagebox \in {"no_processed_file", "size_check_failed",
                                      "unknown_service", "file_too_large"}
       /\ (upload_to_selected_service
             /\ up'.messagebox \in {"size_check_failed", "unknown_service",
                                    "file_too_large"})
            => NothingUploaded
       /\ (CallValidateFileSize /\ up'.checked.result = "True")
            => WithinLimit(up.size, up'.checked.service)]_vars

\* C18 witness: a 300 MB output was refused for catbox in the handler, with
\* no thread and no request
C18_Witness ==
    /\ up.last_output_path # ""
    /\ up.size.mb = 300
    /\ up.upload_service = "catbox"
    /\ up.messagebox = "file_too_large"
    /\ up.checked.result = "none"
    /\ up.thread = "none"
    /\ up.uploads = 0
    /\ up.requests = 0

(***************************************************************************)
(* Failure diagnostics: the error details run_ffmpeg_with_progress picks   *)
(* from the collected stderr lines after a non-zero exit.  The joined text *)
(* is held as the sequence of its lines.                                   *)
(***************************************************************************)
\* lines after the leading run of progress lines of one collected output
MaxTail == 5

UpperChars ==
    <<"A", "B", "C", "D", "E", "F", "G", "H", "I", "J", "K", "L", "M",
      "N", "O", "P", "Q", "R", "S", "T", "U", "V", "W", "X", "Y", "Z">>

LowerChars ==
    <<"a", "b", "c", "d", "e", "f", "g", "h", "i", "j", "k", "l", "m",
      "n", "o", "p", "q", "r", "s", "t", "u", "v", "w", "x", "y", "z">>

\* str.lower()
lower(text) ==
    [i \in DOMAIN text |->
        IF \E k \in DOMAIN UpperChars : UpperChars[k] = text[i]
        THEN LowerChars[CHOOSE k \in DOMAIN UpperChars :
                            UpperChars[k] = text[i]]
        ELSE text[i]]

\* str.strip() of a line of letters, digits and spaces
strip(text) ==
    LET inked == {i \in DOMAIN text : text[i] # " "}
    IN  IF inked = {} THEN <<>>
        ELSE SubSeq(text, CHOOSE i \in inked : \A j \in inked : i <= j,
                          CHOOSE i \in inked : \A j \in inked : j <= i)

\* keyword in text
Contains(text, keyword) ==
    \E i \in 1..(Len(text) - Len(keyword) + 1) :
        SubSeq(text, i, i + Len(keyword) - 1) = keyword

\* ["error", "failed", "invalid", "not found"]
ErrorKeywords ==
    { <<"e", "r", "r", "o", "r">>,
      <<"f", "a", "i", "l", "e", "d">>,
      <<"i", "n", "v", "a", "l", "i", "d">>,
      <<"n", "o", "t", " ", "f", "o", "u", "n", "d">> }

\* any(keyword in line.lower() for keyword in [...])
IsRelevant(line) ==
    \E keyword \in ErrorKeywords : Contains(lower(line), keyword)

\* seq[-n:]
LastOf(seq, n) ==
    IF Len(seq) <= n THEN seq ELSE SubSeq(seq, Len(seq) - n + 1, Len(seq))

\* reversed(seq)
Reversed(seq) == [i \in DOMAIN seq |-> seq[Len(seq) + 1 - i]]

\* [line.strip() for line in ffmpeg_stderr if line.strip()]
ErrorLines(ffmpeg_stderr) ==
    SelectSeq([i \in DOMAIN ffmpeg_stderr |-> strip(ffmpeg_stderr[i])],
              LAMBDA line : line # <<>>)

\* the lines of error_output: relevant_errors[-3:] of the matches found in
\* reversed(error_lines[-10:]), or error_lines[-20:] if there is no match
ErrorOutput(ffmpeg_stderr) ==
    LET error_lines == ErrorLines(ffmpeg_stderr)
        relevant_errors == SelectSeq(Reversed(LastOf(error_lines, 10)),
                                     IsRelevant)
    IN  IF relevant_errors # <<>> THEN LastOf(relevant_errors, 3)
        ELSE LastOf(error_lines, 20)

\* what the encoder writes: the text of a kind of line, numbered
LineText(kind, n) ==
    CASE kind = "progress" -> <<" ", "f", "r", "a", "m", "e", "=">>
                                \o NatToStr(n) \o <<" ">>
      [] kind = "Error" -> <<"E", "r", "r", "o", "r", " ">> \o NatToStr(n)
      [] kind = "not found" ->
             NatToStr(n) \o <<" ", "N", "o", "t", " ", "f", "o", "u", "n", "d">>
      [] OTHER -> <<" ", " ">>

LineKinds == {"progress", "Error", "not found", "blank"}

\* lengths of the leading run of progress lines
LeadingRuns == {0, 6, 7, 20, 21}

\* collected outputs: a run of progress lines, then up to MaxTail lines of
\* any kind
CollectedOutputs ==
    { [i \in 1..(lead + Len(tail)) |->
          IF i <= lead THEN LineText("progress", i)
          ELSE LineText(tail[i - lead], i)] :
      lead \in LeadingRuns,
      tail \in UNION {[1..n -> LineKinds] : n \in 0..MaxTail} }

DiagAside == UNCHANGED <<session_vars, tc, cb, up>>

\* the failure branch after the libass test
ApplyErrorOutput ==
    /\ ~dg.applied
    /\ dg' = [dg EXCEPT !.applied = TRUE,
                        !.error_output = ErrorOutput(dg.ffmpeg_stderr)]
    /\ DiagAside

InitDiag ==
    /\ SessionStart(CHOOSE setup \in SessionSetups :
                        ~setup.trim /\ setup.dur > 0)
    /\ tc = <<>>
    /\ cb = <<>>
    /\ up = <<>>
    /\ \E ffmpeg_stderr \in CollectedOutputs :
          dg = [ffmpeg_stderr |-> ffmpeg_stderr, applied |-> FALSE,
                error_output |-> <<>>]

NextDiag == ApplyErrorOutput

SpecDiag == InitDiag /\ [][NextDiag]_vars

(***************************************************************************)
(* Properties of the failure diagnostics.                                  *)
(***************************************************************************)
\* the non-empty lines of an output, stripped, in order
NonEmptyLines(output) ==
    LET nth[k \in 0..Len(output)] ==
            IF k = 0 THEN <<>>
            ELSE IF \E j \in DOMAIN output[k] : output[k][j] # " "
                 THEN Append(nth[k - 1], strip(output[k]))
            ELSE nth[k - 1]
    IN  nth[Len(output)]

\* positions, among the last 10 of these lines, of the lines with a keyword
MatchPositions(lines) ==
    {i \in DOMAIN lines :
        /\ i > Len(lines) - 10
        /\ \E keyword \in ErrorKeywords : Contains(lower(lines[i]), keyword)}

\* the three greatest of these positions, or all of them if fewer
MostRecent(positions) ==
    {i \in positions : Cardinality({j \in positions : j > i}) < 3}

\* C19: after a non-zero exit without the libass signature, if the last 10
\* non-empty lines contain lines with error / failed / invalid / not found
\* (in any case), the reported text consists of at most 3 of them, the 3
\* most recent ones; if there is none, it is the last 20 non-empty lines.
C19_ThreeMostRecentMatches ==
    dg # <<>> /\ dg.applied
        => LET lines == NonEmptyLines(dg.ffmpeg_stderr)
               matches == MatchPositions(lines)
           IN  IF matches # {}
               THEN /\ Len(dg.error_output) <= 3
                    /\ {dg.error_output[i] : i \in DOMAIN dg.error_output}
                          = {lines[i] : i \in MostRecent(matches)}
               ELSE dg.error_output = LastOf(lines, 20)

(***************************************************************************)
(* Writes to the form while a job is in flight: a new input file with its  *)
(* background duration probe, and typing into the end-time entry.          *)
(***************************************************************************)
\* duration-probe threads in flight at once
MaxProbes == 1

\* what the user types into the end-time entry
TypedEndTimes == {<<"1", ":", "3", "0">>}

\* browse_input_file and the trace on_file_selected: the Browse button is
\* one of main_controls; the stream probes and labels are left out
on_file_selected ==
    /\ ui_pc = "idle"
    /\ ui.main_controls = "normal"
    /\ probing < MaxProbes
    /\ \E path \in {"clip.mp4", "other.mp4"}, exists \in BOOLEAN :
          /\ input_file' = path
          /\ probing' = IF exists THEN probing + 1 ELSE probing
          /\ ui' = IF exists /\ ~is_processing
                   THEN set_processing_ui_state(
                            [ui EXCEPT !.messagebox = "none"],
                            FALSE, advanced_enabled)
                   ELSE [ui EXCEPT !.messagebox = "none"]
    /\ UNCHANGED <<is_processing, cancel_requested, ffmpeg_process,
                   video_duration, trim_enabled, start_time, end_time,
                   advanced_enabled, adv, ui_pc, worker, procs, afterq,
                   cancel_invoked, outcome, run, accepted, tc, cb, dg, up>>

\* _update_duration_bg, the thread on_file_selected starts: the probe stores
\* the duration and, if it succeeded, the end time (draw_timeline only
\* redraws the canvas)
update_duration_bg ==
    /\ probing > 0
    /\ probing' = probing - 1
    /\ \E probed \in ProbedDurations : get_video_duration(probed)
    /\ UNCHANGED <<input_file, is_processing, cancel_requested, ffmpeg_process,
                   trim_enabled, start_time, advanced_enabled, adv, ui, ui_pc,
                   worker, procs, afterq, cancel_invoked, outcome, run,
                   accepted, tc, cb, dg, up>>

\* the user types an end time; the entry is one of main_controls
type_end_time ==
    /\ ui_pc = "idle"
    /\ ui.main_controls = "normal"
    /\ \E typed \in TypedEndTimes : end_time' = typed
    /\ UNCHANGED <<input_file, is_processing, cancel_requested, ffmpeg_process,
                   video_duration, trim_enabled, start_time, advanced_enabled,
                   adv, ui, ui_pc, worker, probing, procs, afterq,
                   cancel_invoked, outcome, run, accepted, tc, cb, dg, up>>

\* the form and a job up to its built command
NextSnapshot ==
    \/ process_video
    \/ cancel_processing
    \/ cancel_terminate
    \/ reset_settings
    \/ on_file_selected
    \/ update_duration_bg
    \/ type_end_time
    \/ WorkerStart

SpecSnapshot == Init /\ [][NextSnapshot]_vars

(***************************************************************************)
(* Properties of the options of a job.                                     *)
(***************************************************************************)
\* the trim duration of the values process_video validated, centiseconds
AcceptedDuration ==
    IF accepted.trim
    THEN 100 * (time_to_seconds(accepted.end) - time_to_seconds(accepted.start))
    ELSE 0

\* C20: the command of a job is built from the options as they were when
\* process_video accepted it; a later write to the form (a user edit, the
\* duration probe of on_file_selected setting end_time, controls enabled
\* again after Cancel) does not change the trim range the worker builds
\* its command with.
C20_CommandFromAcceptedOptions ==
    (accepted.job /\ worker.pc = "spawn")
        => /\ worker.trimming = accepted.trim
           /\ worker.duration = AcceptedDuration

(***************************************************************************)
(* Properties of the threads.                                              *)
(***************************************************************************)
\* C21: the background threads (the encode worker, the duration probe of
\* on_file_selected) never write the form or the widgets themselves; what
\* they have for the UI (progress, completion, a new end time) is posted to
\* the event queue and applied by the UI thread.
C21_BackgroundNeverWritesUi ==
    [][(WorkerStart \/ update_duration_bg)
          => UNCHANGED <<ui, trim_enabled, start_time, end_time,
                         advanced_enabled, adv, input_file>>]_vars

\* C22: a cancel during Running sends the encoder the graceful signal and,
\* when it has not exited within the grace period, kills it, on every
\* interleaving, also when the cancel comes before the worker has spawned
\* the encoder; so the session is never Idle again while an encoder that
\* was told to terminate is still running.
C22_NoCancelledEncoderAtIdle ==
    ~is_processing
        => \A p \in Pids : ~(procs[p].st = "running" /\ procs[p].term)

\* C23: on every path of the worker after it spawned the encoder (normal
\* exit, failed exit, cancelled, exception) the encoder has been waited on
\* and its pipes are released before the outcome is reported and the
\* session is Idle again.
C23_ReapedBeforeIdle ==
    (~is_processing /\ outcome # "none")
        => \A p \in Pids : procs[p].st = "none" \/ procs[p].reaped

(***************************************************************************)
(* Properties of the built argument vector.                                *)
(***************************************************************************)
\* the place of a video filter in the chain
FilterRank(name) ==
    CASE name = "subtitles" -> 1
      [] name = "scale" -> 2
      [] name = "fps" -> 3
      [] name = "setpts" -> 4
      [] OTHER -> 0

\* C24: in every built command the -vf chain lists subtitles (burn-in)
\* first, then scale, then fps, then setpts last; setpts is there exactly
\* when the speed is not 1.0; no -vf argument is emitted for an empty chain.
C24_VideoFilterOrder ==
    (cb # <<>> /\ cb.stage = "built") =>
        LET chain == ChainOf("-vf")
            speed == IF cb.job THEN cb.opt.speed_value ELSE cb.speed
        IN  /\ \A k \in DOMAIN chain : FilterRank(chain[k].name) > 0
            /\ \A j, k \in DOMAIN chain :
                   j < k => FilterRank(chain[j].name) < FilterRank(chain[k].name)
            /\ (\E k \in DOMAIN chain : chain[k].name = "setpts")
                   <=> speed # 100
            /\ \A k \in DOMAIN chain :
                   chain[k].name = "setpts" => chain[k].a = speed
            /\ \A i \in DOMAIN cb.command :
                   cb.command[i].t = "-vf" =>
                       /\ i < Len(cb.command)
                       /\ cb.command[i + 1].t = "chain"
                       /\ cb.command[i + 1].chain # <<>>
            /\ Cardinality({i \in DOMAIN cb.command :
                               cb.command[i].t = "-vf"}) <= 1

\* C24 witness: a burn-in job with scale, fps and a speed of 1.5: all four
\* filters in one chain
C24_Witness ==
    /\ cb # <<>>
    /\ cb.job
    /\ cb.stage = "built"
    /\ cb.opt.speed_value = 150
    /\ Len(ChainOf("-vf")) = 4
    /\ ChainOf("-vf")[1].name = "subtitles"
    /\ ChainOf("-vf")[4].name = "setpts"

\* the subtitle arguments of the built command follow the container
SubtitleStrategy ==
    LET chain == ChainOf("-vf")
        burned == {k \in DOMAIN chain : chain[k].name = "subtitles"}
        mapped == {i \in DOMAIN cb.command : cb.command[i].t = "0:s"}
    IN  IF cb.sel.advanced /\ cb.sel.subtitle
        THEN IF cb.opt.container_label \in {"mp4", "webm"}
             THEN /\ burned = {1}
                  /\ chain[1].a = cb.sel.map_index
                  /\ HasArg("-sn")
                  /\ mapped = {}
                  /\ ~HasArg("-c:s")
             ELSE /\ cb.opt.container_label = "mkv"
                  /\ burned = {}
                  /\ ~HasArg("-sn")
                  /\ Cardinality(mapped) = 1
                  /\ \A i \in mapped :
                        /\ i > 1
                        /\ i + 2 <= Len(cb.command)
                        /\ cb.command[i - 1].t = "-map"
                        /\ cb.command[i].n = cb.sel.map_index
                        /\ cb.command[i + 1].t = "-c:s"
                        /\ cb.command[i + 2].t = "copy"
        ELSE /\ HasArg("-sn")
             /\ burned = {}
             /\ mapped = {}
             /\ ~HasArg("-c:s")

\* C25 as claimed: in every built command of a job, a selected subtitle
\* track is burned in for mp4 and webm (subtitles filter with
\* si=<map_index>, -sn, no subtitle -map) and copied for mkv
\* (-map 0:s:<map_index> -c:s copy, no filter, no -sn); with no subtitle
\* selected -sn is always present, with no subtitles filter and no subtitle
\* -map.
C25_SubtitleStrategyAlways ==
    (cb # <<>> /\ cb.job /\ cb.stage = "built") => SubtitleStrategy

\* C25 amended: the same in every built re-encode command; the stream-copy
\* command has no subtitle argument at all, -sn included.
C25_SubtitleStrategyReencode ==
    (cb # <<>> /\ cb.job /\ cb.stage = "built" /\ ~cb.use_copy)
        => SubtitleStrategy

\* C25 witness: an mkv job with the third subtitle stream selected, copied
\* as -map 0:s:2 -c:s copy
C25_Witness ==
    /\ cb # <<>>
    /\ cb.job
    /\ cb.stage = "built"
    /\ cb.opt.container_label = "mkv"
    /\ cb.sel.map_index = 2
    /\ \E i \in DOMAIN cb.command :
          cb.command[i].t = "0:s" /\ cb.command[i].n = 2
    /\ ~HasArg("-sn")


\* the place of an option in the claimed order of a re-encode command:
\* global options, coarse seek before the input, the input, the precise trim
\* after it, the filters, the stream selectors, codec and audio, the output;
\* 0 for an option's value and for the subtitle options
ArgPhase(i) ==
    LET t == cb.command[i].t
    IN  CASE t \in {"ffmpeg", "-y"} -> 1
          [] t = "-ss" ->
                 IF \E j \in 1..(i - 1) : cb.command[j].t = "-i" THEN 4 ELSE 2
          [] t = "-i" -> 3
          [] t = "-t" -> 4
          [] t \in {"-vf", "-filter:a"} -> 5
          [] t = "-map" /\ i < Len(cb.command)
                 /\ cb.command[i + 1].t \in {"0:v", "0:a"} -> 6
          [] t \in {"-c:v", "-crf", "-preset", "-c:a", "-b:a", "-an"} -> 7
          [] t = "output" -> 8
          [] OTHER -> 0

\* C26: in every built re-encode command the options come in the order
\* global options, coarse -ss before -i (when trimming), -i input, precise
\* -ss 0 -t duration, filters (-vf / -filter:a), -map selectors, then codec,
\* CRF, preset and audio, which no other option follows, and the output path
\* is the final element.
C26_ArgumentOrder ==
    (cb # <<>> /\ cb.job /\ cb.stage = "built" /\ ~cb.use_copy) =>
        /\ cb.command[Len(cb.command)].t = "output"
        /\ \A i, j \in DOMAIN cb.command :
               (i < j /\ ArgPhase(i) > 0 /\ ArgPhase(j) > 0)
                   => ArgPhase(i) <= ArgPhase(j)
        /\ cb.sel.trimming =>
               \E i, j, k \in DOMAIN cb.command :
                   /\ i < j /\ j < k
                   /\ cb.command[i].t = "-ss" /\ cb.command[j].t = "-i"
                   /\ cb.command[k].t = "-ss" /\ cb.command[k + 1].n = 0
                   /\ cb.command[k + 2].t = "-t"


(***************************************************************************)
(* Properties of the job life cycle.                                       *)
(***************************************************************************)
\* the processing_complete callbacks posted and not yet run
PendingCompletions ==
    {i \in DOMAIN afterq : afterq[i].cb = "processing_complete"}

\* C27: for every job started by start_processing the worker posts
\* processing_complete exactly once on every path: never twice, and once
\* the worker has returned the one notification is posted or delivered; so
\* is_processing is true exactly until that one delivery.
C27_ExactlyOnceCompletion ==
    LET posted == Cardinality(PendingCompletions)
                  + (IF outcome # "none" THEN 1 ELSE 0)
    IN  IF accepted.job
        THEN /\ posted <= 1
             /\ worker.pc = "none" => posted = 1
             /\ worker.pc # "none" => posted = 0
             /\ is_processing <=> outcome = "none"
        ELSE posted = 0 /\ ~is_processing

\* C27 witness: a cancelled job whose worker has returned, its one
\* notification posted and not yet delivered
C27_Witness ==
    /\ accepted.job
    /\ cancel_invoked
    /\ worker.pc = "none"
    /\ is_processing
    /\ Cardinality(PendingCompletions) = 1
    /\ \E i \in PendingCompletions : afterq[i].message = "cancelled"


\* C28: a cancel request made for one job never cancels a later one: a job
\* starts only when the worker of the previous job has returned and its
\* notification has been delivered, and it starts with cancel_requested
\* false; while a job runs the flag is set only if cancel_processing ran
\* during that job, and a job is reported Cancelled only in that case.
C28_NoStaleCancellation ==
    [][/\ (~is_processing /\ is_processing')
              => /\ worker.pc = "none"
                 /\ PendingCompletions = {}
                 /\ ~cancel_requested'
                 /\ ~cancel_invoked'
       /\ (is_processing' /\ cancel_requested') => cancel_invoked'
       /\ outcome' = "Cancelled" => cancel_invoked']_vars

\* C28 witness: a job has been reported Cancelled and the session is Idle
\* with the flag of that job still set
C28_Witness ==
    /\ ~is_processing
    /\ outcome = "Cancelled"
    /\ cancel_requested
    /\ worker.pc = "none"
    /\ afterq = <<>>
    /\ ui_pc = "idle"


\* C29: whenever is_processing is true the input and option controls
\* (main_controls with the Reset button, the advanced controls) are
\* disabled, a Cancel click included: only processing_complete enables them
\* again.
C29_ControlsLockedWhileProcessing ==
    is_processing
        => /\ ui.main_controls = "disabled"
           /\ ui.advanced_controls = "disabled"


\* C30: a built re-encode command of a job that produces no audio (the
\* audio bitrate is "Remove Audio", so -an is there and -c:a / -b:a are
\* not) or whose source has no audio stream (no audio -map) contains no
\* audio filter, whatever the speed.
C30_NoAudioFilterWithoutAudio ==
    (cb # <<>> /\ cb.job /\ cb.stage = "built" /\ ~cb.use_copy) =>
        /\ cb.opt.audio_bitrate = "Remove Audio"
               => /\ HasArg("-an")
                  /\ ~HasArg("-c:a")
                  /\ ~HasArg("-b:a")
                  /\ ~HasArg("-filter:a")
        /\ cb.sel.audio.indices = <<>>
               => /\ AudioMaps = {}
                  /\ ~HasArg("-filter:a")

====
